---- MODULE Spec2Model ----
(***************************************************************************)
(* State-machine model of the SteamVR-OSVR tracked device driver:          *)
(*   - the typed, validated property store of OSVRTrackedDevice            *)
(*     (src/src/OSVRTrackedDevice.h) filled by                             *)
(*     OSVRTrackedHMD::configureProperties (src/unnamed/part_001);         *)
(*   - the eye viewports and the raw projection of src/unnamed/part_000;   *)
(*   - the tracker callback writing pose_ and GetPose reading it;          *)
(*   - Activate, Deactivate and ComputeDistortion of OSVRTrackedHMD        *)
(*     (src/unnamed/part_001).                                             *)
(* Each group of operations has its own specification (PropSpec, ViewSpec, *)
(* PoseSpec, ProjSpec, ActSpec, LifeSpec, DistSpec); the variables a       *)
(* specification does not use keep their initial value.                    *)
(***************************************************************************)
EXTENDS Integers, Sequences, FiniteSets, TLC

VARIABLES
    \* ---- the property store (src/src/OSVRTrackedDevice.h, part_001)
    deviceClass_,   \* OSVRTrackedDevice::deviceClass_
    display_,       \* OSVRTrackedHMD::display_ (set by configure())
    properties_,    \* OSVRTrackedDevice::properties_ : id -> tagged value
    propCall,       \* the last property query: its inputs and what it returned
    \* ---- the display geometry of the device of part_000
    m_DisplayDescription,   \* the descriptor given to the constructor
    m_DisplayConfiguration, \* <<>> (nullptr) or <<the parsed descriptor>>
    m_TrackerInterface,     \* <<>> (empty) or <<the interface held>>
    contextInterfaces,      \* live interfaces of m_Context -> callbacks registered
    cerr,                   \* number of diagnostics written to std::cerr
    viewCalls,              \* number of GetEyeOutputViewport calls made
    viewports,              \* eye -> <<>> or <<the rectangle last returned>>
    \* ---- the pose: the tracker callback and GetPose
    self,              \* the device: "OSVRTrackedDevice" (part_000) or
                       \* "OSVRTrackedHMD" (part_001)
    trackerInterface_, \* OSVRTrackedHMD::trackerInterface_: <<>> or <<interface>>
    pose_,             \* the member pose_ of the device
    callbacks,         \* number of callback invocations delivered
    cbUserdata,        \* the userdata of the last invocation
    cbPc,              \* the handler: "idle", "store" (in self->pose_ = pose)
                       \* or "notify" (before TrackedDevicePoseUpdated)
    cbLocal,           \* the handler's local pose: <<>> or <<pose>>
    cbIdx,             \* copy units of pose_ the assignment has overwritten
    rdIdx,             \* GetPose: copy units of pose_ copied so far
    rdBuf,             \* GetPose: the members of pose_ copied so far
    getPoseResult,     \* <<>> or <<the pose GetPose last returned>>
    writtenPoses,      \* the initial pose_ and every pose a handler built
    hostPoseUpdates,   \* calls of driverHost_->TrackedDevicePoseUpdated
    hostPose,          \* <<>> or <<the pose last passed to the host>>
    \* ---- the raw projection of the device of part_000
    projections,       \* eye -> <<>> or <<the bounds GetProjectionRaw returned>>
    \* ---- what OSVRTrackedHMD finds around it (part_001)
    contextStatus,     \* context_.checkStatus()
    displayStartup,    \* displayConfig_.checkStartup()
    displaySetup,      \* the viewers, eyes and surfaces the server describes
    displayParameter,  \* context_.getStringParameter("/display")
    renderManagerConfigString,
                       \* context_.getStringParameter("/renderManagerConfig")
    \* ---- OSVRTrackedHMD::Activate and Deactivate (part_001)
    activatePc,        \* Activate: "idle" (not running), "waitContext" or
                       \* "waitDisplay" (in the first or second polling loop)
    elapsed,           \* std::time(nullptr) - startTime, in seconds
    activations,       \* number of Activate calls made
    hostCall,          \* the host's last management call on the HMD and
                       \* whether it called trackerInterface_.free()
    activateResult,    \* "none" or the value the last Activate returned
    errLog,            \* the messages written with OSVR_LOG(err)
    displayConfig_,    \* <<>> or <<the display configuration obtained>>
    distortionParameters_,   \* the vector of distortion parameters
    leftEyeInterpolators_,   \* <<>> (empty) or <<the mesh built>>
    rightEyeInterpolators_,
    renderManagerConfig_,    \* what renderManagerConfig_ last parsed
    proximityCalls,    \* calls of driverHost_->ProximitySensorState(.., true)
    \* ---- OSVRTrackedHMD::ComputeDistortion (part_001)
    distortionFirst,   \* <<>> or <<the first query made and its answer>>
    distortionLast     \* <<>> or <<the last query made and its answer>>

propVars == <<deviceClass_, display_, properties_, propCall>>

viewVars == <<m_DisplayDescription, m_DisplayConfiguration, m_TrackerInterface,
              contextInterfaces, cerr, viewCalls, viewports>>

poseVars == <<self, trackerInterface_, pose_, callbacks, cbUserdata, cbPc,
              cbLocal, cbIdx, rdIdx, rdBuf, getPoseResult, writtenPoses,
              hostPoseUpdates, hostPose>>

projVars == <<projections>>

envVars == <<contextStatus, displayStartup, displaySetup, displayParameter,
             renderManagerConfigString>>

hmdVars == <<activatePc, elapsed, activations, hostCall, activateResult,
             errLog, displayConfig_, distortionParameters_,
             leftEyeInterpolators_, rightEyeInterpolators_,
             renderManagerConfig_, proximityCalls>>

distVars == <<distortionFirst, distortionLast>>

vars == <<propVars, viewVars, poseVars, projVars, envVars, hmdVars, distVars>>

----------------------------------------------------------------------------
(* Bounds of the model *)

\* capacity of the largest caller buffer handed to the string getter
MaxBuf == 5

\* largest display width and height, in pixels
MaxWidth == 4
MaxHeight == 2

\* number of viewport queries followed
MaxViewCalls == 3

\* number of tracker callback invocations followed
MaxCallbacks == 2

\* Activate calls made on the HMD
MaxActivations == 2

\* the floating point format of the distortion coordinates: FloatBits
\* significant bits, coordinates in [0,1] in steps of 2^-CoordBits
FloatBits == 3
CoordBits == 5

----------------------------------------------------------------------------
(* Property identifiers, kinds and device classes *)

Kinds == {"bool", "float", "int32", "uint64", "string", "matrix34"}

DeviceClasses ==
    {"TrackedDeviceClass_Invalid", "TrackedDeviceClass_HMD",
     "TrackedDeviceClass_Controller"}

\* numeric value of the enumerators of vr::ETrackedDeviceClass
DeviceClassValue(c) ==
    CASE c = "TrackedDeviceClass_Invalid"    -> 0
      [] c = "TrackedDeviceClass_HMD"        -> 1
      [] c = "TrackedDeviceClass_Controller" -> 2

\* "General properties that apply to all device classes"
GeneralProps ==
    {"Prop_WillDriftInYaw_Bool", "Prop_DeviceIsWireless_Bool",
     "Prop_DeviceIsCharging_Bool", "Prop_Firmware_UpdateAvailable_Bool",
     "Prop_Firmware_ManualUpdate_Bool", "Prop_BlockServerShutdown_Bool",
     "Prop_ContainsProximitySensor_Bool",
     "Prop_DeviceProvidesBatteryStatus_Bool", "Prop_DeviceCanPowerOff_Bool",
     "Prop_HasCamera_Bool", "Prop_DeviceBatteryPercentage_Float",
     "Prop_DeviceClass_Int32", "Prop_HardwareRevision_Uint64",
     "Prop_StatusDisplayTransform_Matrix34",
     "Prop_TrackingSystemName_String", "Prop_ModelNumber_String",
     "Prop_SerialNumber_String"}

\* "Properties that apply to HMDs"
HmdProps ==
    {"Prop_ReportsTimeSinceVSync_Bool", "Prop_IsOnDesktop_Bool",
     "Prop_SecondsFromVsyncToPhotons_Float", "Prop_DisplayFrequency_Float",
     "Prop_UserIpdMeters_Float", "Prop_DisplayMCType_Int32",
     "Prop_EdidVendorID_Int32", "Prop_EdidProductID_Int32",
     "Prop_CurrentUniverseId_Uint64", "Prop_PreviousUniverseId_Uint64",
     "Prop_DisplayFirmwareVersion_Uint64",
     "Prop_CameraToHeadTransform_Matrix34", "Prop_DisplayGCImage_String"}

PropIds == GeneralProps \cup HmdProps

\* the identifiers the host queries in the model: for each kind and each
\* scope, identifiers configureProperties writes and identifiers it leaves out
QueriedProps ==
    {"Prop_WillDriftInYaw_Bool", "Prop_DeviceBatteryPercentage_Float",
     "Prop_DeviceClass_Int32", "Prop_HardwareRevision_Uint64",
     "Prop_StatusDisplayTransform_Matrix34",
     "Prop_TrackingSystemName_String", "Prop_ModelNumber_String",
     "Prop_SerialNumber_String",
     "Prop_ReportsTimeSinceVSync_Bool", "Prop_IsOnDesktop_Bool",
     "Prop_SecondsFromVsyncToPhotons_Float", "Prop_UserIpdMeters_Float",
     "Prop_DisplayMCType_Int32", "Prop_EdidVendorID_Int32",
     "Prop_CurrentUniverseId_Uint64",
     "Prop_CameraToHeadTransform_Matrix34", "Prop_DisplayGCImage_String"}

\* the kind an identifier demands (the suffix of its name)
PropKind(prop) ==
    CASE prop \in {"Prop_WillDriftInYaw_Bool", "Prop_DeviceIsWireless_Bool",
                   "Prop_DeviceIsCharging_Bool",
                   "Prop_Firmware_UpdateAvailable_Bool",
                   "Prop_Firmware_ManualUpdate_Bool",
                   "Prop_BlockServerShutdown_Bool",
                   "Prop_ContainsProximitySensor_Bool",
                   "Prop_DeviceProvidesBatteryStatus_Bool",
                   "Prop_DeviceCanPowerOff_Bool", "Prop_HasCamera_Bool",
                   "Prop_ReportsTimeSinceVSync_Bool",
                   "Prop_IsOnDesktop_Bool"} -> "bool"
      [] prop \in {"Prop_DeviceBatteryPercentage_Float",
                   "Prop_SecondsFromVsyncToPhotons_Float",
                   "Prop_DisplayFrequency_Float",
                   "Prop_UserIpdMeters_Float"} -> "float"
      [] prop \in {"Prop_DeviceClass_Int32", "Prop_DisplayMCType_Int32",
                   "Prop_EdidVendorID_Int32",
                   "Prop_EdidProductID_Int32"} -> "int32"
      [] prop \in {"Prop_HardwareRevision_Uint64",
                   "Prop_CurrentUniverseId_Uint64",
                   "Prop_PreviousUniverseId_Uint64",
                   "Prop_DisplayFirmwareVersion_Uint64"} -> "uint64"
      [] prop \in {"Prop_TrackingSystemName_String",
                   "Prop_ModelNumber_String", "Prop_SerialNumber_String",
                   "Prop_DisplayGCImage_String"} -> "string"
      [] prop \in {"Prop_StatusDisplayTransform_Matrix34",
                   "Prop_CameraToHeadTransform_Matrix34"} -> "matrix34"

\* isWrongDataType(prop, T()): T is not the kind registered for prop
isWrongDataType(prop, T) == PropKind(prop) # T

\* isWrongDeviceClass(prop, device_class): prop does not apply to the class
isWrongDeviceClass(prop, device_class) ==
    /\ prop \notin GeneralProps
    /\ ~(prop \in HmdProps /\ device_class = "TrackedDeviceClass_HMD")

----------------------------------------------------------------------------
(* Values of the store: a tagged union, one alternative per kind *)

Val(kind, v) == [kind |-> kind, val |-> v]

Str(s) == Val("string", s)

\* The alternative a boost::variant over {bool, float, int32_t, uint64_t,
\* std::string, HmdMatrix34_t} takes when it is assigned an expression of the
\* given C++ type: overload resolution over the alternatives. A string
\* literal decays to a pointer, whose standard conversion to bool beats the
\* user-defined conversion to std::string; an int literal is an exact match
\* for int32_t; an unscoped enumeration promotes to int.
VariantFrom(cppType, v) ==
    CASE cppType = "bool"          -> Val("bool", v)
      [] cppType = "float"         -> Val("float", v)
      [] cppType = "int32_t"       -> Val("int32", v)
      [] cppType = "uint64_t"      -> Val("uint64", v)
      [] cppType = "std::string"   -> Val("string", v)
      [] cppType = "int"           -> Val("int32", v)
      [] cppType = "enum"          -> Val("int32", v)
      [] cppType = "const char*"   -> Val("bool", TRUE)

\* T(): the value-initialised T
ZeroOf(T) ==
    CASE T = "bool"     -> Val("bool", FALSE)
      [] T = "float"    -> Val("float", 0)
      [] T = "int32"    -> Val("int32", 0)
      [] T = "uint64"   -> Val("uint64", 0)
      [] T = "string"   -> Str(<<>>)
      [] T = "matrix34" -> Val("matrix34", "zero")

\* the default values a caller supplies
Defaults(T) ==
    CASE T = "bool"     -> {Val("bool", TRUE)}
      [] T = "float"    -> {Val("float", 7)}
      [] T = "int32"    -> {Val("int32", 7)}
      [] T = "uint64"   -> {Val("uint64", 7)}
      [] T = "string"   -> {Str(<<"d">>)}
      [] T = "matrix34" -> {Val("matrix34", "identity")}

----------------------------------------------------------------------------
(* OSVRTrackedHMD::configure(): the display the HMD uses *)

\* "Default to OSVR HDK display settings"
DefaultDisplay ==
    [name |-> <<"O", "S", "V", "R", " ", "H", "D", "K">>,
     verticalRefreshRate |-> 60,
     edidVendorId |-> 53838, edidProductId |-> 4121]

\* displays osvr::display::getDisplays() may report whose name matches
DetectedDisplays ==
    {[name |-> <<"O", "S", "V", "R">>, verticalRefreshRate |-> 90,
      edidVendorId |-> 53838, edidProductId |-> 4121]}

\* configure(): the first matching display, the default when none matches
configure(displays) ==
    IF displays = {} THEN DefaultDisplay ELSE CHOOSE d \in displays : TRUE

----------------------------------------------------------------------------
(* OSVRTrackedHMD::configureProperties() *)

\* every assignment properties_[id] = expr of configureProperties, as
\* <<id, C++ type of expr, value of expr>>
ConfiguredEntries(onDesktop, ipd) ==
    {<<"Prop_WillDriftInYaw_Bool", "bool", TRUE>>,
     <<"Prop_DeviceIsWireless_Bool", "bool", FALSE>>,
     <<"Prop_DeviceIsCharging_Bool", "bool", FALSE>>,
     <<"Prop_Firmware_UpdateAvailable_Bool", "bool", FALSE>>,
     <<"Prop_Firmware_ManualUpdate_Bool", "bool", FALSE>>,
     <<"Prop_BlockServerShutdown_Bool", "bool", FALSE>>,
     <<"Prop_ContainsProximitySensor_Bool", "bool", FALSE>>,
     <<"Prop_DeviceProvidesBatteryStatus_Bool", "bool", FALSE>>,
     <<"Prop_DeviceCanPowerOff_Bool", "bool", TRUE>>,
     <<"Prop_HasCamera_Bool", "bool", FALSE>>,
     <<"Prop_DeviceBatteryPercentage_Float", "float", 1>>,
     <<"Prop_DeviceClass_Int32", "enum", DeviceClassValue(deviceClass_)>>,
     <<"Prop_ModelNumber_String", "const char*",
       <<"O", "S", "V", "R", " ", "H", "M", "D">> >>,
     <<"Prop_SerialNumber_String", "std::string", display_.name>>,
     <<"Prop_IsOnDesktop_Bool", "bool", onDesktop>>,
     <<"Prop_DisplayFrequency_Float", "float",
       display_.verticalRefreshRate>>,
     <<"Prop_UserIpdMeters_Float", "float", ipd>>,
     <<"Prop_EdidVendorID_Int32", "int32_t", display_.edidVendorId>>,
     <<"Prop_EdidProductID_Int32", "int32_t", display_.edidProductId>>,
     <<"Prop_CurrentUniverseId_Uint64", "int", 1>>,
     <<"Prop_PreviousUniverseId_Uint64", "int", 1>>,
     <<"Prop_DisplayFirmwareVersion_Uint64", "int", 192>>}

\* the store after the assignments: std::map::operator[] inserts or replaces
AssignAll(store, entries) ==
    [p \in DOMAIN store \cup {e[1] : e \in entries} |->
        IF \E e \in entries : e[1] = p
        THEN LET e == CHOOSE e \in entries : e[1] = p
             IN  VariantFrom(e[2], e[3])
        ELSE store[p]]

\* the values GetIPD() may return (in millimetres)
IpdValues == {63}

configureProperties ==
    /\ deviceClass_ = "TrackedDeviceClass_HMD"
    /\ \E onDesktop \in BOOLEAN, ipd \in IpdValues :
           properties_' = AssignAll(properties_,
                                    ConfiguredEntries(onDesktop, ipd))
    /\ propCall' = [op |-> "configureProperties"]
    /\ UNCHANGED <<deviceClass_, display_>>
    /\ UNCHANGED <<viewVars, poseVars, projVars, envVars, hmdVars, distVars>>

----------------------------------------------------------------------------
(* OSVRTrackedDevice::checkProperty and GetTrackedDeviceProperty *)

\* checkProperty with the device class examined before the data type
checkProperty_ClassFirst(prop, T) ==
    IF isWrongDeviceClass(prop, deviceClass_)
    THEN "TrackedProp_WrongDeviceClass"
    ELSE IF deviceClass_ = "TrackedDeviceClass_Invalid"
    THEN "TrackedProp_InvalidDevice"
    ELSE IF isWrongDataType(prop, T)
    THEN "TrackedProp_WrongDataType"
    ELSE "TrackedProp_Success"

checkProperty(prop, T) ==
    IF isWrongDataType(prop, T)
    THEN "TrackedProp_WrongDataType"
    ELSE IF isWrongDeviceClass(prop, deviceClass_)
    THEN "TrackedProp_WrongDeviceClass"
    ELSE IF deviceClass_ = "TrackedDeviceClass_Invalid"
    THEN "TrackedProp_InvalidDevice"
    ELSE "TrackedProp_Success"

\* what a write through the error pointer leaves with the caller
ErrorOut(hasError, e) == IF hasError THEN e ELSE "no error pointer"

\* boost::get<T>(v): the held value when v holds a T, boost::bad_get otherwise
boost_get(T, v) ==
    IF v.kind = T THEN [threw |-> FALSE, value |-> v]
    ELSE [threw |-> TRUE, value |-> Val("none", "bad_get")]

\* the typed get looking into the store before it validates the request
GetTrackedDeviceProperty_StoreFirst(prop, T, hasError, default_value) ==
    LET result == checkProperty(prop, T) IN
    IF prop \in DOMAIN properties_ /\ properties_[prop].kind = T
    THEN [value |-> properties_[prop],
          error |-> ErrorOut(hasError, "TrackedProp_Success"),
          threw |-> FALSE, consulted |-> TRUE, store |-> properties_]
    ELSE IF result # "TrackedProp_Success"
    THEN [value |-> default_value, error |-> ErrorOut(hasError, result),
          threw |-> FALSE, consulted |-> TRUE, store |-> properties_]
    ELSE [value |-> default_value,
          error |-> ErrorOut(hasError, "TrackedProp_ValueNotProvidedByDevice"),
          threw |-> FALSE, consulted |-> TRUE, store |-> properties_]

\* the typed get returning T() instead of the caller's default on a miss
GetTrackedDeviceProperty_ZeroOnMiss(prop, T, hasError, default_value) ==
    LET result == checkProperty(prop, T) IN
    IF result # "TrackedProp_Success"
    THEN [value |-> default_value, error |-> ErrorOut(hasError, result),
          threw |-> FALSE, consulted |-> FALSE, store |-> properties_]
    ELSE IF prop \in DOMAIN properties_
    THEN LET g == boost_get(T, properties_[prop]) IN
         [value |-> g.value,
          error |-> ErrorOut(hasError, "TrackedProp_Success"),
          threw |-> g.threw, consulted |-> TRUE, store |-> properties_]
    ELSE [value |-> ZeroOf(T),
          error |-> ErrorOut(hasError, "TrackedProp_ValueNotProvidedByDevice"),
          threw |-> FALSE, consulted |-> TRUE, store |-> properties_]

\* the typed get reading properties_[prop] without the find before it:
\* operator[] inserts a value-initialised variant under an absent key
GetTrackedDeviceProperty_IndexOnMiss(prop, T, hasError, default_value) ==
    LET result == checkProperty(prop, T)
        indexed == IF prop \in DOMAIN properties_ THEN properties_
                   ELSE [p \in DOMAIN properties_ \cup {prop} |->
                            IF p = prop THEN ZeroOf(T) ELSE properties_[p]]
    IN
    IF result # "TrackedProp_Success"
    THEN [value |-> default_value, error |-> ErrorOut(hasError, result),
          threw |-> FALSE, consulted |-> FALSE, store |-> properties_]
    ELSE IF prop \in DOMAIN properties_
    THEN LET g == boost_get(T, properties_[prop]) IN
         [value |-> g.value,
          error |-> ErrorOut(hasError, "TrackedProp_Success"),
          threw |-> g.threw, consulted |-> TRUE, store |-> properties_]
    ELSE [value |-> default_value,
          error |-> ErrorOut(hasError, "TrackedProp_ValueNotProvidedByDevice"),
          threw |-> FALSE, consulted |-> TRUE, store |-> indexed]

\* the typed get: its result, the error it reports, whether it threw, whether
\* it looked into the store, and the store it leaves
GetTrackedDeviceProperty(prop, T, hasError, default_value) ==
    LET result == checkProperty(prop, T) IN
    IF result # "TrackedProp_Success"
    THEN [value |-> default_value, error |-> ErrorOut(hasError, result),
          threw |-> FALSE, consulted |-> FALSE, store |-> properties_]
    ELSE IF prop \in DOMAIN properties_
    THEN LET g == boost_get(T, properties_[prop]) IN
         [value |-> g.value,
          error |-> ErrorOut(hasError, "TrackedProp_Success"),
          threw |-> g.threw, consulted |-> TRUE, store |-> properties_]
    ELSE [value |-> default_value,
          error |-> ErrorOut(hasError, "TrackedProp_ValueNotProvidedByDevice"),
          threw |-> FALSE, consulted |-> TRUE, store |-> properties_]

\* a host query Get<T>TrackedDeviceProperty(prop, error)
GetProperty ==
    \E prop \in QueriedProps, T \in Kinds, hasError \in BOOLEAN :
      \E default_value \in Defaults(T) :
        LET r == GetTrackedDeviceProperty(prop, T, hasError, default_value) IN
        /\ propCall' = [op |-> "Get", prop |-> prop, T |-> T,
                        hasError |-> hasError, default |-> default_value,
                        present |-> prop \in DOMAIN properties_,
                        value |-> r.value, error |-> r.error,
                        threw |-> r.threw, consulted |-> r.consulted]
        /\ properties_' = r.store
        /\ UNCHANGED <<deviceClass_, display_>>
        /\ UNCHANGED <<viewVars, poseVars, projVars, envVars, hmdVars, distVars>>

----------------------------------------------------------------------------
(* OSVRTrackedDevice::GetStringTrackedDeviceProperty(prop, value,          *)
(* buffer_size, error)                                                     *)

\* the caller's buffer before the call: buffer_size bytes the string never holds
FreshBuffer(buffer_size) == [i \in 1..buffer_size |-> "?"]

\* the bytes of s and its terminator copied to the front of the buffer
CopyInto(buf, s) ==
    [i \in 1..Len(buf) |->
        IF i <= Len(s) THEN s[i] ELSE IF i = Len(s) + 1 THEN "NUL" ELSE buf[i]]

\* the string getter copying what fits when the buffer is too small
GetStringTrackedDeviceProperty_Truncating(prop, value, buffer_size) ==
    LET r == GetTrackedDeviceProperty(prop, "string", TRUE, Str(<<>>))
        required == Len(r.value.val) + 1
    IN
    IF r.threw
    THEN [ret |-> 0, error |-> r.error, buffer |-> value, threw |-> TRUE]
    ELSE IF r.error # "TrackedProp_Success"
    THEN [ret |-> 0, error |-> r.error, buffer |-> value, threw |-> FALSE]
    ELSE IF buffer_size < required
    THEN [ret |-> required, error |-> "TrackedProp_BufferTooSmall",
          buffer |-> [i \in 1..buffer_size |->
                         IF i < buffer_size THEN r.value.val[i] ELSE "NUL"],
          threw |-> FALSE]
    ELSE [ret |-> required, error |-> "TrackedProp_Success",
          buffer |-> CopyInto(value, r.value.val), threw |-> FALSE]

\* the string getter: the required length (with the terminator) it returns,
\* the error it reports, the buffer it leaves and whether the typed get threw
GetStringTrackedDeviceProperty(prop, value, buffer_size) ==
    LET r == GetTrackedDeviceProperty(prop, "string", TRUE, Str(<<>>))
        required == Len(r.value.val) + 1
    IN
    IF r.threw
    THEN [ret |-> 0, error |-> r.error, buffer |-> value, threw |-> TRUE]
    ELSE IF r.error # "TrackedProp_Success"
    THEN [ret |-> 0, error |-> r.error, buffer |-> value, threw |-> FALSE]
    ELSE IF buffer_size < required
    THEN [ret |-> required, error |-> "TrackedProp_BufferTooSmall",
          buffer |-> value, threw |-> FALSE]
    ELSE [ret |-> required, error |-> "TrackedProp_Success",
          buffer |-> CopyInto(value, r.value.val), threw |-> FALSE]

\* a host query GetStringTrackedDeviceProperty with a buffer of its own
GetStringProperty ==
    \E prop \in QueriedProps, buffer_size \in 0..MaxBuf :
        LET value == FreshBuffer(buffer_size)
            r == GetStringTrackedDeviceProperty(prop, value, buffer_size)
        IN
        /\ propCall' = [op |-> "GetString", prop |-> prop,
                        buffer_size |-> buffer_size, before |-> value,
                        present |-> prop \in DOMAIN properties_,
                        ret |-> r.ret, error |-> r.error,
                        buffer |-> r.buffer, threw |-> r.threw]
        /\ UNCHANGED <<deviceClass_, display_, properties_>>
        /\ UNCHANGED <<viewVars, poseVars, projVars, envVars, hmdVars, distVars>>

----------------------------------------------------------------------------
(* The device of src/unnamed/part_000: display configuration and viewport *)

DisplayModes ==
    {"HORIZONTAL_SIDE_BY_SIDE", "VERTICAL_SIDE_BY_SIDE", "FULL_SCREEN",
     "UNRECOGNIZED"}

\* the display descriptors a device may be constructed with
DisplayDescriptions ==
    [displayMode : DisplayModes, displayWidth : 0..MaxWidth,
     displayHeight : 0..MaxHeight, cotHalfFOV : {1}, aspectRatio : {1},
     ipdMillimeters : {0}]

\* OSVRDisplayConfiguration(description): the parsed descriptor
OSVRDisplayConfiguration(description) ==
    [displayMode |-> description.displayMode,
     displayWidth |-> description.displayWidth,
     displayHeight |-> description.displayHeight,
     cotHalfFOV |-> description.cotHalfFOV,
     aspectRatio |-> description.aspectRatio,
     ipdMillimeters |-> description.ipdMillimeters]

Eyes == {"Eye_Left", "Eye_Right"}

\* Widths and heights are non-negative and only halved: no uint32_t
\* operation of the switch can wrap.

\* the unrecognized mode handled as full screen without a diagnostic
EyeOutputViewport_SilentDefault(config, eye) ==
    LET W == config.displayWidth
        H == config.displayHeight
    IN
    IF config.displayMode = "HORIZONTAL_SIDE_BY_SIDE"
    THEN [x |-> IF eye = "Eye_Left" THEN 0 ELSE W \div 2, y |-> 0,
          width |-> W \div 2, height |-> H, error |-> FALSE]
    ELSE IF config.displayMode = "VERTICAL_SIDE_BY_SIDE"
    THEN [x |-> 0, y |-> IF eye = "Eye_Left" THEN 0 ELSE H \div 2,
          width |-> W, height |-> H \div 2, error |-> FALSE]
    ELSE [x |-> 0, y |-> 0, width |-> W, height |-> H,
          error |-> FALSE]

\* the switch of GetEyeOutputViewport: the rectangle written through the
\* out parameters and whether the default branch wrote to std::cerr
EyeOutputViewport(config, eye) ==
    LET W == config.displayWidth
        H == config.displayHeight
    IN
    IF config.displayMode = "HORIZONTAL_SIDE_BY_SIDE"
    THEN [x |-> IF eye = "Eye_Left" THEN 0 ELSE W \div 2, y |-> 0,
          width |-> W \div 2, height |-> H, error |-> FALSE]
    ELSE IF config.displayMode = "VERTICAL_SIDE_BY_SIDE"
    THEN [x |-> 0, y |-> IF eye = "Eye_Left" THEN 0 ELSE H \div 2,
          width |-> W, height |-> H \div 2, error |-> FALSE]
    ELSE IF config.displayMode = "FULL_SCREEN"
    THEN [x |-> 0, y |-> 0, width |-> W, height |-> H,
          error |-> FALSE]
    ELSE [x |-> 0, y |-> 0, width |-> W, height |-> H,
          error |-> TRUE]

Rect(v) == [x |-> v.x, y |-> v.y, width |-> v.width, height |-> v.height]

\* m_TrackerInterface.notEmpty()
notEmpty(iface) == iface # <<>>

\* the interface getInterface hands out: one that is not live
NewInterface(live) ==
    CHOOSE i \in 0..Cardinality(DOMAIN live) : i \notin DOMAIN live

\* m_TrackerInterface.free(): the context drops the interface
FreeInterface(live, iface) == [i \in DOMAIN live \ {iface} |-> live[i]]

\* OSVRTrackedDevice::Activate of part_000
TrackedDevice_Activate ==
    LET afterFree == IF notEmpty(m_TrackerInterface)
                     THEN FreeInterface(contextInterfaces,
                                        m_TrackerInterface[1])
                     ELSE contextInterfaces
        iface == NewInterface(afterFree)
    IN
    /\ m_DisplayConfiguration' =
           <<OSVRDisplayConfiguration(m_DisplayDescription)>>
    /\ m_TrackerInterface' = <<iface>>
    /\ contextInterfaces' =
           [i \in DOMAIN afterFree \cup {iface} |->
               IF i = iface THEN 1 ELSE afterFree[i]]
    /\ UNCHANGED <<m_DisplayDescription, cerr, viewCalls, viewports>>
    /\ UNCHANGED <<propVars, poseVars, projVars, envVars, hmdVars, distVars>>

\* OSVRTrackedDevice::Deactivate of part_000
TrackedDevice_Deactivate ==
    /\ IF notEmpty(m_TrackerInterface)
       THEN /\ contextInterfaces' =
                   FreeInterface(contextInterfaces, m_TrackerInterface[1])
            /\ m_TrackerInterface' = <<>>
       ELSE UNCHANGED <<m_TrackerInterface, contextInterfaces>>
    /\ UNCHANGED <<m_DisplayDescription, m_DisplayConfiguration, cerr,
                   viewCalls, viewports>>
    /\ UNCHANGED <<propVars, poseVars, projVars, envVars, hmdVars, distVars>>

\* OSVRTrackedDevice::GetEyeOutputViewport of part_000; the host calls it
\* after Activate only
GetEyeOutputViewport ==
    /\ m_DisplayConfiguration # <<>>
    /\ viewCalls < MaxViewCalls
    /\ \E eye \in Eyes :
          LET v == EyeOutputViewport(m_DisplayConfiguration[1], eye) IN
          /\ viewports' = [viewports EXCEPT ![eye] = <<Rect(v)>>]
          /\ cerr' = IF v.error THEN cerr + 1 ELSE cerr
    /\ viewCalls' = viewCalls + 1
    /\ UNCHANGED <<m_DisplayDescription, m_DisplayConfiguration,
                   m_TrackerInterface, contextInterfaces>>
    /\ UNCHANGED <<propVars, poseVars, projVars, envVars, hmdVars, distVars>>

----------------------------------------------------------------------------
(* The pose: HmdTrackerCallback (part_000 and part_001) and GetPose *)

Devices == {"OSVRTrackedDevice", "OSVRTrackedHMD"}

\* A structure assignment is compiled to a run of block moves over the
\* members in address order; the members each move carries
CopyUnits ==
    <<{"poseTimeOffset", "qWorldFromDriverRotation",
       "vecWorldFromDriverTranslation", "qDriverFromHeadRotation",
       "vecDriverFromHeadTranslation"},
      {"vecPosition", "vecVelocity", "vecAcceleration"},
      {"qRotation", "vecAngularVelocity", "vecAngularAcceleration"},
      {"result", "poseIsValid", "willDriftInYaw", "shouldApplyHeadModel"}>>

Quat(w, x, y, z) == [w |-> w, x |-> x, y |-> y, z |-> z]

\* Eigen::Quaterniond::Identity()
QuatIdentity == Quat(1, 0, 0, 0)

\* Eigen::Vector3d::Zero()
Vec3Zero == <<0, 0, 0>>

\* an object nothing has initialised yet, as the build may leave it: old
\* stack or heap bytes, or zeroed memory
JunkQuat == Quat(9, 9, 9, 9)
JunkVec == <<9, 9, 9>>

UninitializedPoses ==
    {[poseTimeOffset |-> 9, qWorldFromDriverRotation |-> JunkQuat,
      vecWorldFromDriverTranslation |-> JunkVec,
      qDriverFromHeadRotation |-> JunkQuat,
      vecDriverFromHeadTranslation |-> JunkVec, vecPosition |-> JunkVec,
      vecVelocity |-> JunkVec, vecAcceleration |-> JunkVec,
      qRotation |-> JunkQuat, vecAngularVelocity |-> JunkVec,
      vecAngularAcceleration |-> JunkVec, result |-> "junk",
      poseIsValid |-> FALSE, willDriftInYaw |-> FALSE,
      shouldApplyHeadModel |-> FALSE],
     [poseTimeOffset |-> 0, qWorldFromDriverRotation |-> Quat(0, 0, 0, 0),
      vecWorldFromDriverTranslation |-> Vec3Zero,
      qDriverFromHeadRotation |-> Quat(0, 0, 0, 0),
      vecDriverFromHeadTranslation |-> Vec3Zero, vecPosition |-> Vec3Zero,
      vecVelocity |-> Vec3Zero, vecAcceleration |-> Vec3Zero,
      qRotation |-> Quat(0, 0, 0, 0), vecAngularVelocity |-> Vec3Zero,
      vecAngularAcceleration |-> Vec3Zero, result |-> "zero",
      poseIsValid |-> FALSE, willDriftInYaw |-> FALSE,
      shouldApplyHeadModel |-> FALSE]}

\* the pose reports the tracker delivers: translation.data and rotation
Reports ==
    {[translation |-> <<1, 2, 3>>, rotation |-> Quat(1, 0, 0, 0)],
     [translation |-> <<4, 5, 6>>, rotation |-> Quat(0, 1, 0, 0)]}

\* the userdata a delivery carries
Userdata == {"NULL", "this"}

\* the handler without its check of userdata
HandlerEnters_NoCheck(userdata) == TRUE

\* if (!userdata) return;
HandlerEnters(userdata) == userdata # "NULL"

\* osvr::util::vecMap(report->pose.translation)
vecMap(translation) == <<translation[1], translation[2], translation[3]>>

\* osvr::util::fromQuat / osvrQuatGetW, X, Y, Z
fromQuat(rotation) == Quat(rotation.w, rotation.x, rotation.y, rotation.z)

\* the position loop of part_000: every component takes translation.data[0]
PositionLoop(translation) ==
    <<translation[1], translation[1], translation[1]>>

\* the handler with the zeroing of the angular velocity and acceleration
\* left out
HandlerPose_AngularLeftOut(device, local, report) ==
    [local EXCEPT
        !.poseTimeOffset = 0,
        !.vecWorldFromDriverTranslation = Vec3Zero,
        !.vecDriverFromHeadTranslation = Vec3Zero,
        !.qWorldFromDriverRotation = QuatIdentity,
        !.qDriverFromHeadRotation = QuatIdentity,
        !.vecPosition = IF device = "OSVRTrackedHMD"
                        THEN vecMap(report.translation)
                        ELSE PositionLoop(report.translation),
        !.vecVelocity = Vec3Zero,
        !.vecAcceleration = Vec3Zero,
        !.qRotation = fromQuat(report.rotation),
        !.result = "TrackingResult_Running_OK",
        !.poseIsValid = TRUE,
        !.willDriftInYaw = TRUE,
        !.shouldApplyHeadModel = TRUE]

\* the local pose a handler has built when it reaches self->pose_ = pose:
\* the uninitialised local with every assignment of the handler applied
HandlerPose(device, local, report) ==
    [local EXCEPT
        !.poseTimeOffset = 0,
        !.vecWorldFromDriverTranslation = Vec3Zero,
        !.vecDriverFromHeadTranslation = Vec3Zero,
        !.qWorldFromDriverRotation = QuatIdentity,
        !.qDriverFromHeadRotation = QuatIdentity,
        !.vecPosition = IF device = "OSVRTrackedHMD"
                        THEN vecMap(report.translation)
                        ELSE PositionLoop(report.translation),
        !.vecVelocity = Vec3Zero,
        !.vecAcceleration = Vec3Zero,
        !.qRotation = fromQuat(report.rotation),
        !.vecAngularVelocity = Vec3Zero,
        !.vecAngularAcceleration = Vec3Zero,
        !.result = "TrackingResult_Running_OK",
        !.poseIsValid = TRUE,
        !.willDriftInYaw = TRUE,
        !.shouldApplyHeadModel = TRUE]

\* the tracker delivers only while an interface with a callback is live
CallbackRegistered ==
    \E i \in DOMAIN contextInterfaces : contextInterfaces[i] > 0

\* HmdTrackerCallback(userdata, timestamp, report) up to the assignment to
\* self->pose_: the null check and the construction of the local pose
HmdTrackerCallback ==
    /\ cbPc = "idle"
    /\ callbacks < MaxCallbacks
    /\ CallbackRegistered
    /\ \E userdata \in Userdata, report \in Reports,
          local \in UninitializedPoses :
          /\ cbUserdata' = userdata
          /\ IF HandlerEnters(userdata)
             THEN LET pose == HandlerPose(self, local, report) IN
                  /\ cbPc' = "store"
                  /\ cbLocal' = <<pose>>
                  /\ cbIdx' = 0
                  /\ writtenPoses' = writtenPoses \cup {pose}
             ELSE UNCHANGED <<cbPc, cbLocal, cbIdx, writtenPoses>>
    /\ callbacks' = callbacks + 1
    /\ UNCHANGED <<self, trackerInterface_, pose_, rdIdx, rdBuf,
                   getPoseResult, hostPoseUpdates, hostPose>>
    /\ UNCHANGED <<propVars, viewVars, projVars, envVars, hmdVars, distVars>>

\* self->pose_ = pose: a plain structure assignment, one copy unit at a
\* time; nothing orders it with GetPose on the render thread
StorePoseUnit ==
    /\ cbPc = "store"
    /\ pose_' = [f \in DOMAIN pose_ |->
                    IF f \in CopyUnits[cbIdx + 1] THEN cbLocal[1][f]
                    ELSE pose_[f]]
    /\ IF cbIdx + 1 < Len(CopyUnits)
       THEN /\ cbIdx' = cbIdx + 1
            /\ UNCHANGED <<cbPc, cbLocal>>
       ELSE /\ cbIdx' = 0
            /\ IF self = "OSVRTrackedHMD"
               THEN cbPc' = "notify" /\ UNCHANGED cbLocal
               ELSE cbPc' = "idle" /\ cbLocal' = <<>>
    /\ UNCHANGED <<self, trackerInterface_, callbacks, cbUserdata, rdIdx,
                   rdBuf, getPoseResult, writtenPoses, hostPoseUpdates,
                   hostPose>>
    /\ UNCHANGED <<propVars, viewVars, projVars, envVars, hmdVars, distVars>>

\* self->driverHost_->TrackedDevicePoseUpdated(self->objectId_, self->pose_)
TrackedDevicePoseUpdated ==
    /\ cbPc = "notify"
    /\ hostPose' = <<pose_>>
    /\ hostPoseUpdates' = hostPoseUpdates + 1
    /\ cbPc' = "idle"
    /\ cbLocal' = <<>>
    /\ UNCHANGED <<self, trackerInterface_, pose_, callbacks, cbUserdata,
                   cbIdx, rdIdx, rdBuf, getPoseResult, writtenPoses>>
    /\ UNCHANGED <<propVars, viewVars, projVars, envVars, hmdVars, distVars>>

\* GetPose: return pose_; copies the structure one copy unit at a time
\* into the value it returns, and returns when the last unit is copied
GetPose ==
    /\ LET unit == CopyUnits[rdIdx + 1]
           copied == [f \in DOMAIN rdBuf \cup unit |->
                         IF f \in unit THEN pose_[f] ELSE rdBuf[f]]
       IN
       IF rdIdx + 1 < Len(CopyUnits)
       THEN /\ rdIdx' = rdIdx + 1
            /\ rdBuf' = copied
            /\ getPoseResult' = <<>>
       ELSE /\ rdIdx' = 0
            /\ rdBuf' = <<>>
            /\ getPoseResult' = <<copied>>
    /\ UNCHANGED <<self, trackerInterface_, pose_, callbacks, cbUserdata,
                   cbPc, cbLocal, cbIdx, writtenPoses, hostPoseUpdates,
                   hostPose>>
    /\ UNCHANGED <<propVars, viewVars, projVars, envVars, hmdVars, distVars>>

----------------------------------------------------------------------------
(* Exact fractions: the arithmetic of GetProjectionRaw. A fraction with    *)
(* denominator 0 is what a floating point division by zero yields:         *)
(* 1/0 is +infinity, -1/0 is -infinity, 0/0 is not-a-number.               *)

Abs(i) == IF i < 0 THEN -i ELSE i

Sign(i) == IF i < 0 THEN -1 ELSE IF i > 0 THEN 1 ELSE 0

RECURSIVE GCD(_, _)
GCD(a, b) == IF b = 0 THEN a ELSE GCD(b, a % b)

\* the fraction n/d in lowest terms with a non-negative denominator
Frac(n, d) ==
    IF d = 0 THEN [n |-> Sign(n), d |-> 0]
    ELSE LET g == GCD(Abs(n), Abs(d)) IN
         [n |-> Sign(d) * (n \div g), d |-> Abs(d) \div g]

FInt(i) == Frac(i, 1)
FAdd(a, b) == Frac(a.n * b.d + b.n * a.d, a.d * b.d)
FNeg(a) == Frac(-a.n, a.d)
FSub(a, b) == FAdd(a, FNeg(b))
FMul(a, b) == Frac(a.n * b.n, a.d * b.d)
FDiv(a, b) == Frac(a.n * b.d, a.d * b.n)
IsFinite(a) == a.d # 0

----------------------------------------------------------------------------
(* OSVRTrackedDevice::GetProjectionRaw of part_000 *)

\* the geometry a display descriptor may carry: the horizontal field of
\* view by cot(FOV/2) (1 is 90 degrees, 2 about 53 degrees, 0 the degenerate
\* 180 degrees), the aspect ratio (0 is degenerate) and the IPD
ProjDescriptions ==
    [displayMode : {"FULL_SCREEN"}, displayWidth : {0}, displayHeight : {0},
     cotHalfFOV : {0, 1, 2}, aspectRatio : {0, 1, 2},
     ipdMillimeters : {0, 60, 64}]

\* getIPDMeters()
getIPDMeters(config) == Frac(config.ipdMillimeters, 1000)

Matrix4(rows) == [i \in 1..4 |-> [j \in 1..4 |-> rows[i][j]]]

\* m(i, j) of Eigen, indices from 0
At(m, i, j) == m[i + 1][j + 1]

\* make_projection_matrix(fov, aspect, near, far): the symmetric perspective
\* projection centered between the eyes
make_projection_matrix(config, z_near, z_far) ==
    LET xScale == FInt(config.cotHalfFOV)
        yScale == FMul(xScale, FInt(config.aspectRatio))
        depth == FSub(z_far, z_near)
        o == FInt(0)
    IN Matrix4(<<
        <<xScale, o, o, o>>,
        <<o, yScale, o, o>>,
        <<o, o, FNeg(FDiv(FAdd(z_far, z_near), depth)),
                FNeg(FDiv(FMul(FInt(2), FMul(z_far, z_near)), depth))>>,
        <<o, o, FInt(-1), o>> >>)

\* Eigen::Affine3d(Eigen::Translation3d(x, 0, 0)) as a 4x4 matrix
Translation3d(x) ==
    LET o == FInt(0)
        l == FInt(1)
    IN Matrix4(<< <<l, o, o, x>>, <<o, l, o, o>>,
                  <<o, o, l, o>>, <<o, o, o, l>> >>)

\* a * b of two 4x4 matrices
MatMul(a, b) ==
    [i \in 1..4 |-> [j \in 1..4 |->
        FAdd(FAdd(FMul(a[i][1], b[1][j]), FMul(a[i][2], b[2][j])),
             FAdd(FMul(a[i][3], b[3][j]), FMul(a[i][4], b[4][j])))]]

z_near == Frac(1, 10)
z_far == FInt(100)

\* GetProjectionRaw with the left eye translated like the right one
ProjectionRaw_NoEyeFlip(config, eye) ==
    LET center == make_projection_matrix(config, z_near, z_far)
        eye_translation == FDiv(getIPDMeters(config), FInt(2))
        eye_matrix == MatMul(Translation3d(eye_translation), center)
        near == FDiv(At(eye_matrix, 2, 3),
                     FSub(At(eye_matrix, 2, 2), FInt(1)))
    IN [eye_translation |-> eye_translation,
        bottom |-> FDiv(FMul(near, FSub(At(eye_matrix, 1, 2), FInt(1))),
                        At(eye_matrix, 1, 1)),
        top |-> FDiv(FMul(near, FAdd(At(eye_matrix, 1, 2), FInt(1))),
                     At(eye_matrix, 1, 1)),
        left |-> FDiv(FMul(near, FSub(At(eye_matrix, 0, 2), FInt(1))),
                      At(eye_matrix, 0, 0)),
        right |-> FDiv(FMul(near, FAdd(At(eye_matrix, 0, 2), FInt(1))),
                       At(eye_matrix, 0, 0))]

\* the body of GetProjectionRaw: the four bounds it writes (and the eye
\* translation it used). The doubles are kept as exact fractions; the final
\* conversion to float rounds a value and its negation alike.
ProjectionRaw(config, eye) ==
    LET center == make_projection_matrix(config, z_near, z_far)
        half == FDiv(getIPDMeters(config), FInt(2))
        eye_translation == IF eye = "Eye_Left"
                           THEN FMul(half, FInt(-1)) ELSE half
        eye_matrix == MatMul(Translation3d(eye_translation), center)
        near == FDiv(At(eye_matrix, 2, 3),
                     FSub(At(eye_matrix, 2, 2), FInt(1)))
    IN [eye_translation |-> eye_translation,
        bottom |-> FDiv(FMul(near, FSub(At(eye_matrix, 1, 2), FInt(1))),
                        At(eye_matrix, 1, 1)),
        top |-> FDiv(FMul(near, FAdd(At(eye_matrix, 1, 2), FInt(1))),
                     At(eye_matrix, 1, 1)),
        left |-> FDiv(FMul(near, FSub(At(eye_matrix, 0, 2), FInt(1))),
                      At(eye_matrix, 0, 0)),
        right |-> FDiv(FMul(near, FAdd(At(eye_matrix, 0, 2), FInt(1))),
                       At(eye_matrix, 0, 0))]

\* OSVRTrackedDevice::GetProjectionRaw of part_000; the host calls it after
\* Activate only. It returns nothing and writes no diagnostic.
GetProjectionRaw ==
    /\ m_DisplayConfiguration # <<>>
    /\ \E eye \in Eyes :
          projections' =
              [projections EXCEPT
                  ![eye] = <<ProjectionRaw(m_DisplayConfiguration[1], eye)>>]
    /\ UNCHANGED <<propVars, viewVars, poseVars, envVars, hmdVars, distVars>>

----------------------------------------------------------------------------
(* OSVRTrackedHMD: what Activate reads from the context *)

\* const std::time_t waitTime = 5
WaitTime == 5

\* the display descriptors of the "/display" parameter: the distortion each
\* describes and, per eye (0 left, 1 right), whether it holds enough data
\* for the mesh of that eye
HmdDisplayDescriptions ==
    {[distortion |-> d, sufficient |-> e] :
        d \in {"identity", "barrel"},
        e \in {<<TRUE, TRUE>>, <<FALSE, TRUE>>, <<TRUE, FALSE>>}}

\* what the accessors of the display configuration return: getNumViewers(),
\* getViewer(0).getNumEyes(), getViewer(0).getEye(0).getNumSurfaces() and
\* getViewer(0).getEye(1).getNumSurfaces()
DisplaySetups ==
    [numViewers : 0..1, numEyes : 1..2, numSurfaces0 : 0..1,
     numSurfaces1 : 0..1]

RenderManagerConfigStrings == {"", "{valid}", "malformed"}

\* what a restarted server may serve: a valid display or one without a
\* viewer, either distortion, a render manager configuration that parses
ServedSetups ==
    {c \in DisplaySetups :
        \/ c = [numViewers |-> 1, numEyes |-> 2, numSurfaces0 |-> 1,
                numSurfaces1 |-> 1]
        \/ c = [numViewers |-> 0, numEyes |-> 1, numSurfaces0 |-> 1,
                numSurfaces1 |-> 0]}

ServedDescriptions ==
    {d \in HmdDisplayDescriptions : d.sufficient = <<TRUE, TRUE>>}

ServedConfigStrings == {"{valid}"}

\* std::time(nullptr) > startTime + waitTime
TimedOut(seconds) == seconds > WaitTime

\* makeUnstructuredMeshInterpolators(parameters, eye, interpolators): whether
\* the mesh of the eye could be built
makeUnstructuredMeshInterpolators(parameters, eye) ==
    parameters.description.sufficient[eye + 1]

\* the interpolators built for an eye
Mesh(parameters, eye) ==
    [distortion |-> parameters.description.distortion, eye |-> eye]

\* OSVRTrackedHMD::configureDistortionParameters(): the parameter vector
\* after the push_back of one entry per eye, the interpolators made from
\* distortionParameters_[0] and distortionParameters_[1], and the errors
\* logged
configureDistortionParameters(parameters, description) ==
    LET pushed == parameters \o
                      <<[description |-> description, eye |-> 0],
                        [description |-> description, eye |-> 1]>>
        leftOk == makeUnstructuredMeshInterpolators(pushed[1], 0)
        rightOk == makeUnstructuredMeshInterpolators(pushed[2], 1)
    IN [distortionParameters_ |-> pushed,
        leftEyeInterpolators_ |->
            IF leftOk THEN <<Mesh(pushed[1], 0)>> ELSE <<>>,
        rightEyeInterpolators_ |->
            IF rightOk THEN <<Mesh(pushed[2], 1)>> ELSE <<>>,
        errors |->
            (IF leftOk THEN <<>>
             ELSE <<"Could not create mesh interpolators for left eye.">>) \o
            (IF rightOk THEN <<>>
             ELSE <<"Could not create mesh interpolators for right eye.">>)]

\* the test of "Verify valid display config"
UnexpectedDisplayParameters(c) ==
    /\ c.numViewers # 1
    /\ c.numEyes # 2
    /\ c.numSurfaces0 = 1
    /\ c.numSurfaces1 # 1

\* the messages and the return of the block under that test; "none" when
\* no branch of it returns
DisplayNotFound(c) ==
    IF ~UnexpectedDisplayParameters(c)
    THEN [errors |-> <<>>, return |-> "none"]
    ELSE IF c.numViewers < 1
    THEN [errors |-> <<"Unexpected display parameters!",
                       "At least one viewer must exist.">>,
          return |-> "VRInitError_Driver_HmdDisplayNotFound"]
    ELSE IF c.numEyes < 2
    THEN [errors |-> <<"Unexpected display parameters!",
                       "At least two eyes must exist.">>,
          return |-> "VRInitError_Driver_HmdDisplayNotFound"]
    ELSE IF c.numSurfaces0 < 1 \/ c.numSurfaces1 < 1
    THEN [errors |-> <<"Unexpected display parameters!",
                       "At least one surface must exist for each eye.">>,
          return |-> "VRInitError_Driver_HmdDisplayNotFound"]
    ELSE [errors |-> <<"Unexpected display parameters!">>,
          return |-> "none"]

\* renderManagerConfig_.parse(configString) inside the try block: the
\* configuration held afterwards and the error logged by the catch
ParseRenderManagerConfig(held, configString) ==
    LET text == IF configString = "" THEN "{}" ELSE configString IN
    IF text = "malformed"
    THEN [config |-> held,
          errors |-> <<"Exception parsing Render Manager config">>]
    ELSE [config |-> text, errors |-> <<>>]

----------------------------------------------------------------------------
(* OSVRTrackedHMD::Activate and Deactivate of part_001 *)

\* Activate up to the first polling loop without the free of a non-empty
\* tracker interface
HMD_Activate_NoFree ==
    /\ self = "OSVRTrackedHMD"
    /\ activatePc = "idle"
    /\ activations < MaxActivations
    /\ activations' = activations + 1
    /\ hostCall' = [op |-> "Activate", freed |-> FALSE]
    /\ activateResult' = "none"
    /\ elapsed' = 0
    /\ activatePc' = "waitContext"
    /\ UNCHANGED <<errLog, displayConfig_, distortionParameters_,
                   leftEyeInterpolators_, rightEyeInterpolators_,
                   renderManagerConfig_, proximityCalls>>
    /\ UNCHANGED <<propVars, viewVars, poseVars, projVars, envVars, distVars>>

\* Activate up to the first polling loop: the tracker interface is freed
\* and startTime is taken
HMD_Activate ==
    /\ self = "OSVRTrackedHMD"
    /\ activatePc = "idle"
    /\ activations < MaxActivations
    /\ activations' = activations + 1
    /\ IF notEmpty(trackerInterface_)
       THEN /\ contextInterfaces' =
                   FreeInterface(contextInterfaces, trackerInterface_[1])
            /\ trackerInterface_' = <<>>
       ELSE UNCHANGED <<contextInterfaces, trackerInterface_>>
    /\ hostCall' = [op |-> "Activate", freed |-> notEmpty(trackerInterface_)]
    /\ activateResult' = "none"
    /\ elapsed' = 0
    /\ activatePc' = "waitContext"
    /\ UNCHANGED <<errLog, displayConfig_, distortionParameters_,
                   leftEyeInterpolators_, rightEyeInterpolators_,
                   renderManagerConfig_, proximityCalls>>
    /\ UNCHANGED <<m_DisplayDescription, m_DisplayConfiguration,
                   m_TrackerInterface, cerr, viewCalls, viewports>>
    /\ UNCHANGED <<self, pose_, callbacks, cbUserdata, cbPc, cbLocal, cbIdx,
                   rdIdx, rdBuf, getPoseResult, writtenPoses,
                   hostPoseUpdates, hostPose>>
    /\ UNCHANGED <<propVars, projVars, envVars, distVars>>

\* the first polling loop without its time limit
ActivateContextPoll_NoLimit ==
    /\ activatePc = "waitContext"
    /\ IF contextStatus
       THEN LET built == configureDistortionParameters(
                             distortionParameters_, displayParameter)
            IN
            /\ distortionParameters_' = built.distortionParameters_
            /\ leftEyeInterpolators_' = built.leftEyeInterpolators_
            /\ rightEyeInterpolators_' = built.rightEyeInterpolators_
            /\ errLog' = errLog \o built.errors
            /\ displayConfig_' = <<displaySetup>>
            /\ elapsed' = 0
            /\ activatePc' = "waitDisplay"
            /\ UNCHANGED activateResult
       ELSE UNCHANGED <<distortionParameters_, leftEyeInterpolators_,
                        rightEyeInterpolators_, displayConfig_, elapsed,
                        errLog, activateResult, activatePc>>
    /\ UNCHANGED <<activations, hostCall, renderManagerConfig_,
                   proximityCalls>>
    /\ UNCHANGED <<propVars, viewVars, poseVars, projVars, envVars, distVars>>

\* one test of while (!context_.checkStatus()): the loop is left for
\* configureDistortionParameters() and the display configuration, or the
\* time limit has passed and Activate returns, or the loop goes round
ActivateContextPoll ==
    /\ activatePc = "waitContext"
    /\ IF contextStatus
       THEN LET built == configureDistortionParameters(
                             distortionParameters_, displayParameter)
            IN
            /\ distortionParameters_' = built.distortionParameters_
            /\ leftEyeInterpolators_' = built.leftEyeInterpolators_
            /\ rightEyeInterpolators_' = built.rightEyeInterpolators_
            /\ errLog' = errLog \o built.errors
            /\ displayConfig_' = <<displaySetup>>
            /\ elapsed' = 0
            /\ activatePc' = "waitDisplay"
            /\ UNCHANGED activateResult
       ELSE IF TimedOut(elapsed)
       THEN /\ errLog' = Append(errLog, "Context startup timed out!")
            /\ activateResult' = "VRInitError_Driver_Failed"
            /\ activatePc' = "idle"
            /\ UNCHANGED <<distortionParameters_, leftEyeInterpolators_,
                           rightEyeInterpolators_, displayConfig_, elapsed>>
       ELSE UNCHANGED <<distortionParameters_, leftEyeInterpolators_,
                        rightEyeInterpolators_, displayConfig_, elapsed,
                        errLog, activateResult, activatePc>>
    /\ UNCHANGED <<activations, hostCall, renderManagerConfig_,
                   proximityCalls>>
    /\ UNCHANGED <<propVars, viewVars, poseVars, projVars, envVars, distVars>>

\* the second polling loop and the rest of Activate with the callback
\* registered and the host notified before the display is verified
ActivateDisplayPoll_RegistersFirst ==
    /\ activatePc = "waitDisplay"
    /\ IF displayStartup
       THEN LET verdict == DisplayNotFound(displayConfig_[1])
                iface == NewInterface(contextInterfaces)
                parsed == ParseRenderManagerConfig(
                              renderManagerConfig_, renderManagerConfigString)
            IN
            /\ trackerInterface_' = <<iface>>
            /\ contextInterfaces' =
                   [i \in DOMAIN contextInterfaces \cup {iface} |->
                       IF i = iface THEN 1 ELSE contextInterfaces[i]]
            /\ proximityCalls' = proximityCalls + 1
            /\ IF verdict.return # "none"
               THEN /\ errLog' = errLog \o verdict.errors
                    /\ activateResult' = verdict.return
                    /\ UNCHANGED renderManagerConfig_
               ELSE /\ renderManagerConfig_' = parsed.config
                    /\ errLog' = errLog \o verdict.errors \o parsed.errors
                    /\ activateResult' = "VRInitError_None"
       ELSE IF TimedOut(elapsed)
       THEN /\ errLog' = Append(errLog, "Display startup timed out!")
            /\ activateResult' = "VRInitError_Driver_Failed"
            /\ UNCHANGED <<trackerInterface_, contextInterfaces,
                           renderManagerConfig_, proximityCalls>>
       ELSE UNCHANGED <<errLog, activateResult, trackerInterface_,
                        contextInterfaces, renderManagerConfig_,
                        proximityCalls>>
    /\ activatePc' = IF displayStartup \/ TimedOut(elapsed)
                     THEN "idle" ELSE activatePc
    /\ UNCHANGED <<elapsed, activations, hostCall, displayConfig_,
                   distortionParameters_, leftEyeInterpolators_,
                   rightEyeInterpolators_>>
    /\ UNCHANGED <<m_DisplayDescription, m_DisplayConfiguration,
                   m_TrackerInterface, cerr, viewCalls, viewports>>
    /\ UNCHANGED <<self, pose_, callbacks, cbUserdata, cbPc, cbLocal, cbIdx,
                   rdIdx, rdBuf, getPoseResult, writtenPoses,
                   hostPoseUpdates, hostPose>>
    /\ UNCHANGED <<propVars, projVars, envVars, distVars>>

\* one test of while (!displayConfig_.checkStartup()): the loop is left for
\* the rest of Activate, or the time limit has passed and Activate returns,
\* or the loop goes round
ActivateDisplayPoll ==
    /\ activatePc = "waitDisplay"
    /\ IF displayStartup
       THEN LET verdict == DisplayNotFound(displayConfig_[1])
                iface == NewInterface(contextInterfaces)
                parsed == ParseRenderManagerConfig(
                              renderManagerConfig_, renderManagerConfigString)
            IN
            IF verdict.return # "none"
            THEN /\ errLog' = errLog \o verdict.errors
                 /\ activateResult' = verdict.return
                 /\ UNCHANGED <<trackerInterface_, contextInterfaces,
                                renderManagerConfig_, proximityCalls>>
            ELSE /\ trackerInterface_' = <<iface>>
                 /\ contextInterfaces' =
                        [i \in DOMAIN contextInterfaces \cup {iface} |->
                            IF i = iface THEN 1 ELSE contextInterfaces[i]]
                 /\ renderManagerConfig_' = parsed.config
                 /\ errLog' = errLog \o verdict.errors \o parsed.errors
                 /\ proximityCalls' = proximityCalls + 1
                 /\ activateResult' = "VRInitError_None"
       ELSE IF TimedOut(elapsed)
       THEN /\ errLog' = Append(errLog, "Display startup timed out!")
            /\ activateResult' = "VRInitError_Driver_Failed"
            /\ UNCHANGED <<trackerInterface_, contextInterfaces,
                           renderManagerConfig_, proximityCalls>>
       ELSE UNCHANGED <<errLog, activateResult, trackerInterface_,
                        contextInterfaces, renderManagerConfig_,
                        proximityCalls>>
    /\ activatePc' = IF displayStartup \/ TimedOut(elapsed)
                     THEN "idle" ELSE activatePc
    /\ UNCHANGED <<elapsed, activations, hostCall, displayConfig_,
                   distortionParameters_, leftEyeInterpolators_,
                   rightEyeInterpolators_>>
    /\ UNCHANGED <<m_DisplayDescription, m_DisplayConfiguration,
                   m_TrackerInterface, cerr, viewCalls, viewports>>
    /\ UNCHANGED <<self, pose_, callbacks, cbUserdata, cbPc, cbLocal, cbIdx,
                   rdIdx, rdBuf, getPoseResult, writtenPoses,
                   hostPoseUpdates, hostPose>>
    /\ UNCHANGED <<propVars, projVars, envVars, distVars>>

\* a second passes while Activate polls
Tick ==
    /\ activatePc \in {"waitContext", "waitDisplay"}
    /\ ~TimedOut(elapsed)
    /\ elapsed' = elapsed + 1
    /\ UNCHANGED <<activatePc, activations, hostCall, activateResult, errLog,
                   displayConfig_, distortionParameters_,
                   leftEyeInterpolators_, rightEyeInterpolators_,
                   renderManagerConfig_, proximityCalls>>
    /\ UNCHANGED <<propVars, viewVars, poseVars, projVars, envVars, distVars>>

\* the client context finishes its start-up
ContextStarts ==
    /\ ~contextStatus
    /\ contextStatus' = TRUE
    /\ UNCHANGED <<displayStartup, displaySetup, displayParameter,
                   renderManagerConfigString>>
    /\ UNCHANGED <<propVars, viewVars, poseVars, projVars, hmdVars, distVars>>

\* the display finishes its start-up
DisplayStarts ==
    /\ contextStatus
    /\ ~displayStartup
    /\ displayStartup' = TRUE
    /\ UNCHANGED <<contextStatus, displaySetup, displayParameter,
                   renderManagerConfigString>>
    /\ UNCHANGED <<propVars, viewVars, poseVars, projVars, hmdVars, distVars>>

\* the OSVR server is restarted between two calls of the host, with another
\* configuration perhaps: the context has to start up again, and so has the
\* display configuration the next Activate makes from it
ServerRestarts ==
    /\ activatePc = "idle"
    /\ contextStatus
    /\ contextStatus' = FALSE
    /\ displayStartup' = FALSE
    /\ displaySetup' \in ServedSetups
    /\ displayParameter' \in ServedDescriptions
    /\ renderManagerConfigString' \in ServedConfigStrings
    /\ UNCHANGED <<propVars, viewVars, poseVars, projVars, hmdVars, distVars>>

\* OSVRTrackedHMD::Deactivate that leaves the interface as it is
HMD_Deactivate_KeepsInterface ==
    /\ self = "OSVRTrackedHMD"
    /\ activatePc = "idle"
    /\ hostCall' = [op |-> "Deactivate", freed |-> FALSE]
    /\ UNCHANGED <<activatePc, elapsed, activations, activateResult, errLog,
                   displayConfig_, distortionParameters_,
                   leftEyeInterpolators_, rightEyeInterpolators_,
                   renderManagerConfig_, proximityCalls>>
    /\ UNCHANGED <<propVars, viewVars, poseVars, projVars, envVars, distVars>>

\* OSVRTrackedHMD::Deactivate; the host calls it when Activate has returned
HMD_Deactivate ==
    /\ self = "OSVRTrackedHMD"
    /\ activatePc = "idle"
    /\ IF notEmpty(trackerInterface_)
       THEN /\ contextInterfaces' =
                   FreeInterface(contextInterfaces, trackerInterface_[1])
            /\ trackerInterface_' = <<>>
       ELSE UNCHANGED <<contextInterfaces, trackerInterface_>>
    /\ hostCall' = [op |-> "Deactivate", freed |-> notEmpty(trackerInterface_)]
    /\ UNCHANGED <<activatePc, elapsed, activations, activateResult, errLog,
                   displayConfig_, distortionParameters_,
                   leftEyeInterpolators_, rightEyeInterpolators_,
                   renderManagerConfig_, proximityCalls>>
    /\ UNCHANGED <<m_DisplayDescription, m_DisplayConfiguration,
                   m_TrackerInterface, cerr, viewCalls, viewports>>
    /\ UNCHANGED <<self, pose_, callbacks, cbUserdata, cbPc, cbLocal, cbIdx,
                   rdIdx, rdBuf, getPoseResult, writtenPoses,
                   hostPoseUpdates, hostPose>>
    /\ UNCHANGED <<propVars, projVars, envVars, distVars>>

----------------------------------------------------------------------------
(* OSVRTrackedHMD::ComputeDistortion of part_001. The float coordinates are *)
(* kept as integers in units of 2^-CoordBits; an operation rounds its       *)
(* result to FloatBits significant bits, to nearest, ties to even.          *)

RECURSIVE Pow2(_)
Pow2(k) == IF k = 0 THEN 1 ELSE 2 * Pow2(k - 1)

\* 1.0f
One == Pow2(CoordBits)

\* the number is a float: it has at most FloatBits significant bits
Representable(x) ==
    \E e \in 0..CoordBits, m \in 0..(Pow2(FloatBits) - 1) : x = m * Pow2(e)

\* the float nearest to x
FlRound(x) ==
    IF x < Pow2(FloatBits) THEN x
    ELSE LET e == CHOOSE k \in 1..CoordBits :
                      /\ x \div Pow2(k) < Pow2(FloatBits)
                      /\ x \div Pow2(k - 1) >= Pow2(FloatBits)
             q == x \div Pow2(e)
             r == x % Pow2(e)
             half == Pow2(e - 1)
         IN IF r > half \/ (r = half /\ q % 2 = 1)
            THEN (q + 1) * Pow2(e)
            ELSE q * Pow2(e)

\* 1.0f - x
OneMinus(x) == FlRound(One - x)

\* the coordinates queried
UCoords == {x \in {5} : Representable(x)}
VCoords == {x \in {0, 1, 2, 12, One} : Representable(x)}

\* static_cast<size_t>(eye)
osvr_eye(eye) == IF eye = "Eye_Left" THEN 0 ELSE 1

COLOR_RED == 0
COLOR_GREEN == 1
COLOR_BLUE == 2

\* osvr::renderkit::DistortionCorrectTextureCoordinate(eye, in_coords,
\* parameters, color, overfill, interpolators): the lookup in the mesh of
\* the colour. An identity mesh returns the coordinates given; the barrel
\* mesh moves them by an amount of its eye and colour.
DistortionCorrectTextureCoordinate(eye, in_coords, parameters, color, interpolators) ==
    LET mesh == interpolators[1] IN
    IF mesh.distortion = "identity" THEN in_coords
    ELSE <<FlRound((in_coords[1] + 2 + color + 2 * mesh.eye) \div 2),
           FlRound((in_coords[2] + 2 + color + 2 * mesh.eye) \div 2)>>

\* the body of ComputeDistortion without the second flip of v
DistortionCoords_NoFlipBack(eye, u, v, interpolators) ==
    LET distortion_parameters == distortionParameters_[osvr_eye(eye) + 1]
        in_coords == <<u, OneMinus(v)>>
        coords_red == DistortionCorrectTextureCoordinate(
                          osvr_eye(eye), in_coords, distortion_parameters,
                          COLOR_RED, interpolators)
        coords_green == DistortionCorrectTextureCoordinate(
                            osvr_eye(eye), in_coords, distortion_parameters,
                            COLOR_GREEN, interpolators)
        coords_blue == DistortionCorrectTextureCoordinate(
                           osvr_eye(eye), in_coords, distortion_parameters,
                           COLOR_BLUE, interpolators)
    IN [rfRed |-> coords_red, rfGreen |-> coords_green,
        rfBlue |-> coords_blue]

\* the body of ComputeDistortion once the interpolators are chosen: flip v,
\* look the three colours up, flip v back
DistortionCoords(eye, u, v, interpolators) ==
    LET distortion_parameters == distortionParameters_[osvr_eye(eye) + 1]
        in_coords == <<u, OneMinus(v)>>
        coords_red == DistortionCorrectTextureCoordinate(
                          osvr_eye(eye), in_coords, distortion_parameters,
                          COLOR_RED, interpolators)
        coords_green == DistortionCorrectTextureCoordinate(
                            osvr_eye(eye), in_coords, distortion_parameters,
                            COLOR_GREEN, interpolators)
        coords_blue == DistortionCorrectTextureCoordinate(
                           osvr_eye(eye), in_coords, distortion_parameters,
                           COLOR_BLUE, interpolators)
    IN [rfRed |-> <<coords_red[1], OneMinus(coords_red[2])>>,
        rfGreen |-> <<coords_green[1], OneMinus(coords_green[2])>>,
        rfBlue |-> <<coords_blue[1], OneMinus(coords_blue[2])>>]

\* ComputeDistortion answering every eye from the left-eye interpolators
ComputeDistortionCoords_LeftOnly(eye, u, v) ==
    DistortionCoords(eye, u, v, leftEyeInterpolators_)

\* ComputeDistortion(eye, u, v): the coordinates it returns
ComputeDistortionCoords(eye, u, v) ==
    DistortionCoords(eye, u, v,
                     IF eye = "Eye_Right" THEN rightEyeInterpolators_
                     ELSE leftEyeInterpolators_)

\* OSVRTrackedHMD::ComputeDistortion; the host calls it after Activate
ComputeDistortion ==
    /\ activateResult = "VRInitError_None"
    /\ \E eye \in Eyes, u \in UCoords, v \in VCoords :
          LET call == [eye |-> eye, u |-> u, v |-> v,
                       coords |-> ComputeDistortionCoords(eye, u, v)]
          IN /\ distortionLast' = <<call>>
             /\ distortionFirst' = IF distortionFirst = <<>> THEN <<call>>
                                   ELSE distortionFirst
    /\ UNCHANGED <<propVars, viewVars, poseVars, projVars, envVars, hmdVars>>

----------------------------------------------------------------------------
(* Initial states *)

\* the property store as constructed
PropConstructed ==
    /\ properties_ = [p \in {} |-> Val("none", 0)]
    /\ propCall = [op |-> "none"]

\* the device of part_000 as constructed
ViewConstructed ==
    /\ m_DisplayConfiguration = <<>>
    /\ m_TrackerInterface = <<>>
    /\ contextInterfaces = [i \in {} |-> 0]
    /\ cerr = 0
    /\ viewCalls = 0
    /\ viewports = [eye \in Eyes |-> <<>>]

\* the threads of the pose and what they have produced, before any delivery
PoseIdle ==
    /\ callbacks = 0
    /\ cbUserdata = "none"
    /\ cbPc = "idle"
    /\ cbLocal = <<>>
    /\ cbIdx = 0
    /\ rdIdx = 0
    /\ rdBuf = <<>>
    /\ getPoseResult = <<>>
    /\ writtenPoses = {pose_}
    /\ hostPoseUpdates = 0
    /\ hostPose = <<>>

\* the HMD as constructed: Activate never called
HmdConstructed ==
    /\ activatePc = "idle"
    /\ elapsed = 0
    /\ activations = 0
    /\ hostCall = [op |-> "none", freed |-> FALSE]
    /\ activateResult = "none"
    /\ errLog = <<>>
    /\ displayConfig_ = <<>>
    /\ distortionParameters_ = <<>>
    /\ leftEyeInterpolators_ = <<>>
    /\ rightEyeInterpolators_ = <<>>
    /\ renderManagerConfig_ = "unparsed"
    /\ proximityCalls = 0

\* a context that is up, with a display of one viewer, two eyes and one
\* surface each
ReadyEnvironment ==
    /\ contextStatus = TRUE
    /\ displayStartup = TRUE
    /\ displaySetup = [numViewers |-> 1, numEyes |-> 2, numSurfaces0 |-> 1,
                       numSurfaces1 |-> 1]
    /\ displayParameter =
           [distortion |-> "identity", sufficient |-> <<TRUE, TRUE>>]
    /\ renderManagerConfigString = "{valid}"

\* no distortion has been asked for
DistConstructed == distortionFirst = <<>> /\ distortionLast = <<>>

\* no projection has been asked for
ProjConstructed == projections = [eye \in Eyes |-> <<>>]

\* the descriptor of a device whose geometry is not under study
PlainDescription ==
    [displayMode |-> "FULL_SCREEN", displayWidth |-> 0, displayHeight |-> 0,
     cotHalfFOV |-> 1, aspectRatio |-> 1, ipdMillimeters |-> 0]

----------------------------------------------------------------------------
(* The property store: an OSVRTrackedDevice of any class, its display found *)
(* by configure(), queried by the host                                      *)

PropInit ==
    /\ deviceClass_ \in DeviceClasses
    /\ display_ \in {configure({}), configure(DetectedDisplays)}
    /\ PropConstructed
    /\ m_DisplayDescription = PlainDescription
    /\ ViewConstructed
    /\ self = "OSVRTrackedHMD"
    /\ trackerInterface_ = <<>>
    /\ pose_ \in UninitializedPoses
    /\ PoseIdle
    /\ ProjConstructed
    /\ ReadyEnvironment
    /\ HmdConstructed
    /\ DistConstructed

PropNext ==
    \/ configureProperties
    \/ GetProperty
    \/ GetStringProperty

PropSpec == PropInit /\ [][PropNext]_vars

----------------------------------------------------------------------------
(* The viewports: the device of part_000 from its construction *)

ViewInit ==
    /\ m_DisplayDescription \in DisplayDescriptions
    /\ ViewConstructed
    /\ deviceClass_ = "TrackedDeviceClass_HMD"
    /\ display_ = configure({})
    /\ PropConstructed
    /\ self = "OSVRTrackedDevice"
    /\ trackerInterface_ = <<>>
    /\ pose_ \in UninitializedPoses
    /\ PoseIdle
    /\ ProjConstructed
    /\ ReadyEnvironment
    /\ HmdConstructed
    /\ DistConstructed

ViewNext ==
    \/ TrackedDevice_Activate
    \/ TrackedDevice_Deactivate
    \/ GetEyeOutputViewport

ViewSpec == ViewInit /\ [][ViewNext]_vars

----------------------------------------------------------------------------
(* The pose: a device after Activate, its callback registered on a live    *)
(* interface, pose_ still holding what construction left in it; the        *)
(* tracker delivers on its context while the render thread calls GetPose   *)

PoseInit ==
    /\ self \in Devices
    /\ pose_ \in UninitializedPoses
    /\ PoseIdle
    /\ contextInterfaces = (0 :> 1)
    /\ IF self = "OSVRTrackedHMD"
       THEN trackerInterface_ = <<0>> /\ m_TrackerInterface = <<>>
       ELSE trackerInterface_ = <<>> /\ m_TrackerInterface = <<0>>
    /\ m_DisplayDescription = PlainDescription
    /\ m_DisplayConfiguration =
           IF self = "OSVRTrackedHMD" THEN <<>>
           ELSE <<OSVRDisplayConfiguration(m_DisplayDescription)>>
    /\ cerr = 0
    /\ viewCalls = 0
    /\ viewports = [eye \in Eyes |-> <<>>]
    /\ deviceClass_ = "TrackedDeviceClass_HMD"
    /\ display_ = configure({})
    /\ PropConstructed
    /\ ProjConstructed
    /\ ReadyEnvironment
    /\ HmdConstructed
    /\ DistConstructed

PoseNext ==
    \/ HmdTrackerCallback
    \/ StorePoseUnit
    \/ TrackedDevicePoseUpdated
    \/ GetPose

PoseSpec == PoseInit /\ [][PoseNext]_vars

----------------------------------------------------------------------------
(* The raw projection: the device of part_000 from its construction, its   *)
(* descriptor carrying any geometry                                        *)

ProjInit ==
    /\ m_DisplayDescription \in ProjDescriptions
    /\ ViewConstructed
    /\ deviceClass_ = "TrackedDeviceClass_HMD"
    /\ display_ = configure({})
    /\ PropConstructed
    /\ self = "OSVRTrackedDevice"
    /\ trackerInterface_ = <<>>
    /\ pose_ \in UninitializedPoses
    /\ PoseIdle
    /\ ProjConstructed
    /\ ReadyEnvironment
    /\ HmdConstructed
    /\ DistConstructed

ProjNext ==
    \/ TrackedDevice_Activate
    \/ TrackedDevice_Deactivate
    \/ GetProjectionRaw

ProjSpec == ProjInit /\ [][ProjNext]_vars

----------------------------------------------------------------------------
(* Activation: the HMD of part_001 and the device of part_000 on one       *)
(* context, from their construction; the context and the display start up  *)
(* when they will, or never                                                 *)

ActInit ==
    /\ contextStatus = FALSE
    /\ displayStartup = FALSE
    /\ displaySetup \in DisplaySetups
    /\ displayParameter \in
           {d \in HmdDisplayDescriptions : d.distortion = "barrel"}
    /\ renderManagerConfigString \in RenderManagerConfigStrings
    /\ HmdConstructed
    /\ m_DisplayDescription = PlainDescription
    /\ ViewConstructed
    /\ deviceClass_ = "TrackedDeviceClass_HMD"
    /\ display_ = configure({})
    /\ PropConstructed
    /\ self = "OSVRTrackedHMD"
    /\ trackerInterface_ = <<>>
    /\ pose_ = CHOOSE p \in UninitializedPoses : p.result = "zero"
    /\ PoseIdle
    /\ ProjConstructed
    /\ DistConstructed

ActNext ==
    \/ HMD_Activate
    \/ ActivateContextPoll
    \/ ActivateDisplayPoll
    \/ Tick
    \/ ContextStarts
    \/ DisplayStarts
    \/ HMD_Deactivate
    \/ TrackedDevice_Activate
    \/ TrackedDevice_Deactivate

ActSpec == ActInit /\ [][ActNext]_vars

\* the clock advances and the thread in Activate keeps running
ActLiveSpec ==
    /\ ActSpec
    /\ WF_vars(Tick)
    /\ WF_vars(ActivateContextPoll)
    /\ WF_vars(ActivateDisplayPoll)

----------------------------------------------------------------------------
(* Activation across restarts of the server: the host activates and        *)
(* deactivates the devices while the server comes up, goes away and comes  *)
(* back with another configuration                                         *)

RestartInit ==
    /\ contextStatus = FALSE
    /\ displayStartup = FALSE
    /\ displaySetup \in ServedSetups
    /\ displayParameter \in ServedDescriptions
    /\ renderManagerConfigString \in ServedConfigStrings
    /\ HmdConstructed
    /\ m_DisplayDescription = PlainDescription
    /\ ViewConstructed
    /\ deviceClass_ = "TrackedDeviceClass_HMD"
    /\ display_ = configure({})
    /\ PropConstructed
    /\ self = "OSVRTrackedHMD"
    /\ trackerInterface_ = <<>>
    /\ pose_ = CHOOSE p \in UninitializedPoses : p.result = "zero"
    /\ PoseIdle
    /\ ProjConstructed
    /\ DistConstructed

RestartNext ==
    \/ HMD_Activate
    \/ ActivateContextPoll
    \/ ActivateDisplayPoll
    \/ Tick
    \/ ContextStarts
    \/ DisplayStarts
    \/ ServerRestarts
    \/ HMD_Deactivate
    \/ TrackedDevice_Activate
    \/ TrackedDevice_Deactivate

RestartSpec == RestartInit /\ [][RestartNext]_vars

----------------------------------------------------------------------------
(* The life of the HMD: activated and deactivated by the host on a context *)
(* that is up, while the tracker delivers samples on its own thread        *)

LifeInit ==
    /\ ReadyEnvironment
    /\ HmdConstructed
    /\ m_DisplayDescription = PlainDescription
    /\ ViewConstructed
    /\ deviceClass_ = "TrackedDeviceClass_HMD"
    /\ display_ = configure({})
    /\ PropConstructed
    /\ self = "OSVRTrackedHMD"
    /\ trackerInterface_ = <<>>
    /\ pose_ \in UninitializedPoses
    /\ PoseIdle
    /\ ProjConstructed
    /\ DistConstructed

LifeNext ==
    \/ HMD_Activate
    \/ ActivateContextPoll
    \/ ActivateDisplayPoll
    \/ Tick
    \/ HMD_Deactivate
    \/ HmdTrackerCallback
    \/ StorePoseUnit
    \/ TrackedDevicePoseUpdated

LifeSpec == LifeInit /\ [][LifeNext]_vars

----------------------------------------------------------------------------
(* The distortion: the HMD after an Activate that built both meshes, its   *)
(* callback registered; the host queries the distortion while the tracker  *)
(* delivers samples                                                        *)

DistInit ==
    /\ contextStatus = TRUE
    /\ displayStartup = TRUE
    /\ displaySetup = [numViewers |-> 1, numEyes |-> 2, numSurfaces0 |-> 1,
                       numSurfaces1 |-> 1]
    /\ displayParameter \in
           {d \in HmdDisplayDescriptions : d.sufficient = <<TRUE, TRUE>>}
    /\ renderManagerConfigString = "{valid}"
    /\ LET built == configureDistortionParameters(<<>>, displayParameter) IN
       /\ distortionParameters_ = built.distortionParameters_
       /\ leftEyeInterpolators_ = built.leftEyeInterpolators_
       /\ rightEyeInterpolators_ = built.rightEyeInterpolators_
       /\ errLog = built.errors
    /\ activatePc = "idle"
    /\ elapsed = 0
    /\ activations = 1
    /\ hostCall = [op |-> "Activate", freed |-> FALSE]
    /\ activateResult = "VRInitError_None"
    /\ displayConfig_ = <<displaySetup>>
    /\ renderManagerConfig_ = "{valid}"
    /\ proximityCalls = 1
    /\ self = "OSVRTrackedHMD"
    /\ trackerInterface_ = <<0>>
    /\ contextInterfaces = (0 :> 1)
    /\ pose_ = CHOOSE p \in UninitializedPoses : p.result = "zero"
    /\ PoseIdle
    /\ m_DisplayDescription = PlainDescription
    /\ m_DisplayConfiguration = <<>>
    /\ m_TrackerInterface = <<>>
    /\ cerr = 0
    /\ viewCalls = 0
    /\ viewports = [eye \in Eyes |-> <<>>]
    /\ deviceClass_ = "TrackedDeviceClass_HMD"
    /\ display_ = configure({})
    /\ PropConstructed
    /\ ProjConstructed
    /\ DistConstructed

DistNext ==
    \/ ComputeDistortion
    \/ HmdTrackerCallback
    \/ StorePoseUnit
    \/ TrackedDevicePoseUpdated

DistSpec == DistInit /\ [][DistNext]_vars

----------------------------------------------------------------------------
(* Claims about the property store (checked under PropSpec) *)

IsGet == propCall.op = "Get"

\* the three validations of a recorded typed get, from its inputs
CallWrongType == isWrongDataType(propCall.prop, propCall.T)
CallWrongClass == isWrongDeviceClass(propCall.prop, deviceClass_)
CallInvalidDevice == deviceClass_ = "TrackedDeviceClass_Invalid"
CallPassesChecks == ~CallWrongType /\ ~CallWrongClass /\ ~CallInvalidDevice

\* C1: a typed get validates in a fixed short-circuiting order: a type
\* mismatch reports WrongDataType whatever the device class; otherwise an
\* identifier that does not apply to the device class reports
\* WrongDeviceClass; otherwise an invalid device class reports InvalidDevice;
\* the store is consulted exactly when all three checks pass.
C1_ValidationOrder ==
    IsGet =>
        /\ CallWrongType =>
               propCall.error =
                   ErrorOut(propCall.hasError, "TrackedProp_WrongDataType")
        /\ (~CallWrongType /\ CallWrongClass) =>
               propCall.error =
                   ErrorOut(propCall.hasError, "TrackedProp_WrongDeviceClass")
        /\ (~CallWrongType /\ ~CallWrongClass /\ CallInvalidDevice) =>
               propCall.error =
                   ErrorOut(propCall.hasError, "TrackedProp_InvalidDevice")
        /\ propCall.consulted <=> CallPassesChecks

\* a get that fails all three validations at once and reports WrongDataType
C1_Witness ==
    /\ IsGet /\ propCall.hasError
    /\ CallWrongType /\ CallWrongClass /\ CallInvalidDevice
    /\ propCall.error = "TrackedProp_WrongDataType"

\* C2: a get whose requested type differs from the kind registered for the
\* identifier returns the caller's default and reports WrongDataType, whether
\* or not a value is stored under the identifier.
C2_WrongTypeIgnoresStore ==
    (IsGet /\ propCall.T # PropKind(propCall.prop)) =>
        /\ propCall.value = propCall.default
        /\ ~propCall.threw
        /\ propCall.error =
               ErrorOut(propCall.hasError, "TrackedProp_WrongDataType")

\* get<int32> on an identifier registered as uint64 under which the store
\* holds a value (an int32 value, even)
C2_Witness ==
    /\ IsGet /\ propCall.hasError /\ propCall.present
    /\ propCall.T # PropKind(propCall.prop)
    /\ properties_[propCall.prop].kind = propCall.T
    /\ propCall.error = "TrackedProp_WrongDataType"

\* C3: when the three validations pass and the identifier was never written
\* to the store, get returns exactly the caller's default and reports
\* ValueNotProvidedByDevice.
C3_MissReturnsDefault ==
    (IsGet /\ CallPassesChecks /\ ~propCall.present) =>
        /\ propCall.value = propCall.default
        /\ ~propCall.threw
        /\ propCall.error =
               ErrorOut(propCall.hasError,
                        "TrackedProp_ValueNotProvidedByDevice")

\* a validated get of an absent key whose default differs from T()
C3_Witness ==
    /\ IsGet /\ propCall.hasError /\ CallPassesChecks /\ ~propCall.present
    /\ propCall.default # ZeroOf(propCall.T)
    /\ propCall.error = "TrackedProp_ValueNotProvidedByDevice"

\* C4: every entry configureProperties writes holds a value of the kind its
\* identifier demands, so a get of the registered type on a present key that
\* passes validation returns the stored value with Success and never throws.
C4_StoredKindMatchesId ==
    /\ \A p \in DOMAIN properties_ : properties_[p].kind = PropKind(p)
    /\ (IsGet /\ CallPassesChecks /\ propCall.present) =>
           /\ ~propCall.threw
           /\ propCall.value = properties_[propCall.prop]
           /\ propCall.error =
                  ErrorOut(propCall.hasError, "TrackedProp_Success")

\* a string retrieval that found a stored string
StringFound ==
    /\ propCall.op = "GetString"
    /\ PropKind(propCall.prop) = "string"
    /\ ~isWrongDeviceClass(propCall.prop, deviceClass_)
    /\ deviceClass_ # "TrackedDeviceClass_Invalid"
    /\ propCall.present
    /\ properties_[propCall.prop].kind = "string"

C25_GetLeavesStore ==
    [][propCall'.op = "Get" => properties_' = properties_]_vars

\* a validated get of a key the store lacks has returned, and the store
\* still lacks the key
C25_Witness ==
    /\ IsGet /\ CallPassesChecks /\ ~propCall.present
    /\ propCall.prop \notin DOMAIN properties_
    /\ DOMAIN properties_ # {}

----------------------------------------------------------------------------
(* Claims about the eye viewports (checked under ViewSpec) *)

\* the pixels of a rectangle
Pixels(r) ==
    {<<px, py>> \in (0..(r.x + r.width)) \X (0..(r.y + r.height)) :
        /\ r.x <= px /\ px < r.x + r.width
        /\ r.y <= py /\ py < r.y + r.height}

FullDisplay ==
    [x |-> 0, y |-> 0, width |-> m_DisplayConfiguration[1].displayWidth,
     height |-> m_DisplayConfiguration[1].displayHeight]

BothEyesQueried == \A eye \in Eyes : viewports[eye] # <<>>

\* C6: for horizontal side by side and every resolution (W,H) the left and
\* right rectangles exactly tile (0,0,W,H): no overlap, and no pixel column
\* or row left uncovered, W odd included.
C6_HorizontalTiles ==
    (/\ m_DisplayConfiguration # <<>>
     /\ m_DisplayConfiguration[1].displayMode = "HORIZONTAL_SIDE_BY_SIDE"
     /\ BothEyesQueried) =>
        LET left == Pixels(viewports["Eye_Left"][1])
            right == Pixels(viewports["Eye_Right"][1])
        IN  /\ left \cap right = {}
            /\ left \cup right = Pixels(FullDisplay)

RecognizedMode ==
    m_DisplayConfiguration[1].displayMode \in
        {"HORIZONTAL_SIDE_BY_SIDE", "VERTICAL_SIDE_BY_SIDE", "FULL_SCREEN"}

\* C7: for a mode that is none of the three recognized ones every call
\* returns (0,0,W,H) for the eye asked and writes one error diagnostic; for
\* the recognized modes no diagnostic is written.
C7_UnrecognizedModeReported ==
    m_DisplayConfiguration # <<>> =>
        IF RecognizedMode
        THEN cerr = 0
        ELSE /\ cerr = viewCalls
             /\ \A eye \in Eyes :
                    viewports[eye] # <<>> => viewports[eye][1] = FullDisplay

\* both eyes were queried under an unrecognized mode on a non-empty display
C7_Witness ==
    /\ m_DisplayConfiguration # <<>>
    /\ ~RecognizedMode
    /\ BothEyesQueried
    /\ viewCalls = MaxViewCalls /\ cerr = MaxViewCalls
    /\ m_DisplayConfiguration[1].displayWidth > 0
    /\ m_DisplayConfiguration[1].displayHeight > 0

----------------------------------------------------------------------------
(* Claims about the pose (checked under PoseSpec) *)

\* C8: with the callback writing pose_ while the render thread calls GetPose,
\* every pose GetPose returns equals, member for member, the initial pose or
\* one pose a handler built and stored; none mixes members of two writes.
C8_NoTornPose ==
    getPoseResult # <<>> => getPoseResult[1] \in writtenPoses

\* C9: an invocation of the handler with null userdata returns at once: it
\* starts no assignment to pose_, leaves the stored pose as it is and does
\* not notify the host.
C9_NullUserdataIgnored ==
    [][(callbacks' = callbacks + 1 /\ cbUserdata' = "NULL") =>
          /\ pose_' = pose_
          /\ cbPc' = "idle"
          /\ cbLocal' = <<>>
          /\ writtenPoses' = writtenPoses
          /\ hostPoseUpdates' = hostPoseUpdates
          /\ hostPose' = hostPose]_vars

\* a null invocation delivered after a pose was stored and the host notified
C9_Witness ==
    /\ cbUserdata = "NULL"
    /\ cbPc = "idle"
    /\ hostPoseUpdates = 1
    /\ hostPose = <<pose_>>

FullyConstructed(p) ==
    /\ p.vecVelocity = Vec3Zero
    /\ p.vecAcceleration = Vec3Zero
    /\ p.vecAngularVelocity = Vec3Zero
    /\ p.vecAngularAcceleration = Vec3Zero
    /\ p.qWorldFromDriverRotation = QuatIdentity
    /\ p.vecWorldFromDriverTranslation = Vec3Zero
    /\ p.qDriverFromHeadRotation = QuatIdentity
    /\ p.vecDriverFromHeadTranslation = Vec3Zero
    /\ p.poseTimeOffset = 0
    /\ p.result = "TrackingResult_Running_OK"
    /\ p.poseIsValid
    /\ p.willDriftInYaw
    /\ p.shouldApplyHeadModel

\* C10: every pose a handler publishes has zero linear and angular velocity
\* and acceleration, identity world-from-driver and driver-from-head
\* transforms, time offset 0, result Running_OK and the validity,
\* drift-in-yaw and head-model flags set, whatever the sample and whatever
\* the local held before.
C10_PublishedPoseFullyConstructed ==
    /\ cbLocal # <<>> => FullyConstructed(cbLocal[1])
    /\ hostPose # <<>> => FullyConstructed(hostPose[1])
    /\ \A p \in writtenPoses :
           p \in UninitializedPoses \/ FullyConstructed(p)

\* the handler of part_000 has stored a pose over an uninitialised pose_
C10_Witness ==
    /\ self = "OSVRTrackedDevice"
    /\ callbacks > 0 /\ cbUserdata = "this" /\ cbPc = "idle"
    /\ pose_ \notin UninitializedPoses
    /\ FullyConstructed(pose_)

----------------------------------------------------------------------------
(* Claims about the raw projection (checked under ProjSpec) *)

\* the descriptor has a valid field of view: no diagonal scale term is zero
ValidFOV ==
    /\ m_DisplayConfiguration[1].cotHalfFOV # 0
    /\ m_DisplayConfiguration[1].aspectRatio # 0

BothEyesProjected == \A eye \in Eyes : projections[eye] # <<>>

\* C16: the centered projection is translated by -IPD/2 for the left eye and
\* by +IPD/2 for the right eye, and for every valid FOV and IPD >= 0 the
\* bounds of the two eyes mirror each other: left-eye left = -(right-eye
\* right), left-eye right = -(right-eye left), top and bottom the same.
C16_ProjectionMirrorSymmetric ==
    (/\ m_DisplayConfiguration # <<>>
     /\ ValidFOV
     /\ BothEyesProjected) =>
        LET l == projections["Eye_Left"][1]
            r == projections["Eye_Right"][1]
            half == FDiv(getIPDMeters(m_DisplayConfiguration[1]), FInt(2))
        IN  /\ l.eye_translation = FNeg(half)
            /\ r.eye_translation = half
            /\ l.left = FNeg(r.right)
            /\ l.right = FNeg(r.left)
            /\ l.top = r.top
            /\ l.bottom = r.bottom
            /\ \A b \in {l.left, l.right, l.top, l.bottom} : IsFinite(b)

\* both eyes projected for a valid field of view and a positive IPD
C16_Witness ==
    /\ m_DisplayConfiguration # <<>>
    /\ ValidFOV
    /\ m_DisplayConfiguration[1].ipdMillimeters > 0
    /\ BothEyesProjected
    /\ projections["Eye_Left"][1].left # projections["Eye_Right"][1].left

\* C17: when a diagonal scale term of the eye projection matrix is zero,
\* GetProjectionRaw reports an error; it returns no bound computed by
\* dividing by the zero term.
C17_DegenerateFOVReported ==
    \A eye \in Eyes :
        (m_DisplayConfiguration # <<>> /\ projections[eye] # <<>>
            /\ ~ValidFOV) =>
            LET p == projections[eye][1] IN
            /\ cerr > 0
            /\ \A b \in {p.left, p.right, p.top, p.bottom} : IsFinite(b)

----------------------------------------------------------------------------
(* Claims about the delivered sample (checked under PoseSpec) *)

\* the pose carries the position and the orientation of one sample
MatchesSample(p) ==
    \E report \in Reports :
        /\ \A i \in 1..3 : p.vecPosition[i] = report.translation[i]
        /\ p.qRotation = report.rotation

\* C19: for every delivered sample the published pose's position equals the
\* sample's translation component by component and its orientation equals
\* the sample's rotation, in the handler of part_000 and of part_001.
C19_PoseMatchesSample ==
    /\ cbLocal # <<>> => MatchesSample(cbLocal[1])
    /\ \A p \in writtenPoses :
           p \in UninitializedPoses \/ MatchesSample(p)

----------------------------------------------------------------------------
(* Claims about activation (checked under ActSpec and ActLiveSpec) *)

\* C11: after Deactivate returns the tracker subscription is empty, and a
\* Deactivate that finds it empty (never activated, or deactivated before)
\* calls no free(), logs no error and leaves the state as it was, for the
\* HMD of part_001 and the device of part_000.
C11_DeactivateIdempotent ==
    [][/\ HMD_Deactivate =>
            /\ trackerInterface_' = <<>>
            /\ hostCall'.freed = notEmpty(trackerInterface_)
            /\ errLog' = errLog
            /\ trackerInterface_ = <<>> =>
                  /\ contextInterfaces' = contextInterfaces
                  /\ UNCHANGED <<activatePc, elapsed, activations,
                                 activateResult, displayConfig_,
                                 distortionParameters_,
                                 leftEyeInterpolators_,
                                 rightEyeInterpolators_,
                                 renderManagerConfig_, proximityCalls>>
                  /\ UNCHANGED <<propVars, viewVars, poseVars, projVars,
                                 envVars>>
       /\ TrackedDevice_Deactivate =>
            /\ m_TrackerInterface' = <<>>
            /\ m_TrackerInterface = <<>> => UNCHANGED vars]_vars

\* both devices were activated and deactivated, and the HMD has been
\* deactivated once more
C11_Witness ==
    /\ hostCall = [op |-> "Deactivate", freed |-> FALSE]
    /\ activateResult = "VRInitError_None"
    /\ trackerInterface_ = <<>>
    /\ m_DisplayConfiguration # <<>>
    /\ m_TrackerInterface = <<>>
    /\ DOMAIN contextInterfaces = {}

\* C12: Activate always returns; when the context (or, after it, the
\* display) is still not ready at a test made after the 5 second limit, the
\* loop ends, one error is logged and Activate returns
\* VRInitError_Driver_Failed without starting the wait again.
C12_ActivateTerminates ==
    /\ [][(/\ activatePc = "waitContext" /\ ~contextStatus
           /\ elapsed > WaitTime /\ ActivateContextPoll) =>
             /\ activatePc' = "idle"
             /\ activateResult' = "VRInitError_Driver_Failed"
             /\ errLog' = Append(errLog, "Context startup timed out!")
             /\ UNCHANGED <<elapsed, activations, trackerInterface_>>]_vars
    /\ [][(/\ activatePc = "waitDisplay" /\ ~displayStartup
           /\ elapsed > WaitTime /\ ActivateDisplayPoll) =>
             /\ activatePc' = "idle"
             /\ activateResult' = "VRInitError_Driver_Failed"
             /\ errLog' = Append(errLog, "Display startup timed out!")
             /\ UNCHANGED <<elapsed, activations, trackerInterface_>>]_vars
    /\ (activatePc # "idle") ~> (activatePc = "idle")

\* an Activate has returned after the context never came up
C12_Witness ==
    /\ activatePc = "idle"
    /\ ~contextStatus
    /\ elapsed = WaitTime + 1
    /\ activateResult = "VRInitError_Driver_Failed"
    /\ errLog = <<"Context startup timed out!">>

\* C13: when the mesh interpolators of an eye cannot be built the failure
\* is logged when they are built and Activate does not return
\* VRInitError_None.
C13_FailedMeshRefusesActivation ==
    (/\ distortionParameters_ # <<>>
     /\ leftEyeInterpolators_ = <<>> \/ rightEyeInterpolators_ = <<>>) =>
        /\ errLog # <<>>
        /\ activateResult # "VRInitError_None"

\* the display configuration lacks a viewer, an eye or a surface
InvalidDisplay(c) ==
    \/ c.numViewers < 1
    \/ c.numEyes < 2
    \/ c.numSurfaces0 < 1
    \/ c.numSurfaces1 < 1

\* C20: whenever the configuration has no viewer, or viewer 0 fewer than
\* two eyes, or an eye of viewer 0 no surface, Activate returns
\* VRInitError_Driver_HmdDisplayNotFound and registers no tracker callback.
C20_InvalidDisplayRefused ==
    (/\ activatePc = "idle"
     /\ hostCall.op = "Activate"
     /\ activateResult # "VRInitError_Driver_Failed"
     /\ InvalidDisplay(displaySetup)) =>
        /\ activateResult = "VRInitError_Driver_HmdDisplayNotFound"
        /\ trackerInterface_ = <<>>

\* the last message written with OSVR_LOG(err)
LastError(log) == IF log = <<>> THEN "" ELSE log[Len(log)]

\* C22: an error raised while the render manager configuration is parsed
\* during Activate is surfaced to the caller: that Activate does not return
\* VRInitError_None.
C22_ParseErrorSurfaced ==
    [][(/\ activatePc = "waitDisplay"
        /\ activatePc' = "idle"
        /\ errLog' # errLog
        /\ LastError(errLog') = "Exception parsing Render Manager config") =>
          activateResult' # "VRInitError_None"]_vars

----------------------------------------------------------------------------
(* Claims about activation across restarts of the server (checked under    *)
(* RestartSpec)                                                            *)

\* the interfaces a device holds
HeldInterfaces ==
    {i \in DOMAIN contextInterfaces :
        \/ trackerInterface_ = <<i>>
        \/ m_TrackerInterface = <<i>>}

\* the live interfaces of the HMD: those the device of part_000 does not hold
HmdSubscriptions ==
    {i \in DOMAIN contextInterfaces : m_TrackerInterface # <<i>>}

\* Activate has returned a value other than VRInitError_None
ActivateFailed ==
    /\ activatePc = "idle"
    /\ activateResult \notin {"none", "VRInitError_None"}

\* C21: no silent partial activation: whenever Activate returns a value
\* other than VRInitError_None (context timeout, display timeout, display
\* not found), on return the tracker subscription is empty, no tracker
\* callback is registered and the host was not sent the proximity
\* notification during that attempt, even after an activation that had
\* succeeded.
C21_NoPartialActivation ==
    [][/\ activateResult' # "VRInitError_None" =>
            proximityCalls' = proximityCalls
       /\ (activatePc # "idle" /\ ActivateFailed') =>
            /\ trackerInterface_' = <<>>
            /\ HmdSubscriptions' = {}]_vars

\* the second Activate, called while the subscription of the first, which
\* had succeeded, was still held, has failed
C21_Witness ==
    /\ ActivateFailed
    /\ activations = 2
    /\ hostCall = [op |-> "Activate", freed |-> TRUE]
    /\ proximityCalls = 1
    /\ trackerInterface_ = <<>>

\* C23: after any sequence of Activate and Deactivate calls, Activate
\* repeated without a Deactivate included, a device holds at most one
\* tracker subscription with at most one callback: every live interface is
\* the one a device holds, and one callback is registered on it.
C23_AtMostOneSubscription ==
    /\ DOMAIN contextInterfaces = HeldInterfaces
    /\ Cardinality(HmdSubscriptions) <= 1
    /\ \A i \in DOMAIN contextInterfaces : contextInterfaces[i] <= 1

\* both devices hold a subscription; the HMD's is of its second Activate,
\* called without a Deactivate after the first
C23_Witness ==
    /\ activatePc = "idle"
    /\ activations = 2
    /\ hostCall = [op |-> "Activate", freed |-> TRUE]
    /\ activateResult = "VRInitError_None"
    /\ trackerInterface_ # <<>>
    /\ m_TrackerInterface # <<>>
    /\ Cardinality(DOMAIN contextInterfaces) = 2

\* the display descriptor configureDistortionParameters parsed last
LatestDescriptor ==
    distortionParameters_[Len(distortionParameters_)].description

\* C24: after any number of Activate calls the distortion parameter list
\* holds one entry per eye of the display descriptor parsed last, so that
\* ComputeDistortion(eye) indexes the parameters the latest activation
\* built for that eye.
C24_OneEntryPerEye ==
    distortionParameters_ # <<>> =>
        /\ Len(distortionParameters_) = Cardinality(Eyes)
        /\ \A eye \in Eyes :
              distortionParameters_[osvr_eye(eye) + 1] =
                  [description |-> LatestDescriptor, eye |-> osvr_eye(eye)]

----------------------------------------------------------------------------
(* Claims about the life of the HMD (checked under LifeSpec) *)

\* C18: once Deactivate has returned, and until the next Activate, no
\* sample overwrites the stored pose or reaches the host's pose-updated
\* notification, a sample whose delivery had begun before included.
C18_NoPoseAfterDeactivate ==
    [][(hostCall.op = "Deactivate" /\ hostCall'.op = "Deactivate") =>
          /\ pose_' = pose_
          /\ hostPoseUpdates' = hostPoseUpdates]_vars

----------------------------------------------------------------------------
(* Claims about the distortion (checked under DistSpec) *)

\* the last query was answered from an identity mesh
IdentityQueried ==
    /\ distortionLast # <<>>
    /\ displayParameter.distortion = "identity"

\* the distance of two coordinates
Distance(a, b) == IF a < b THEN b - a ELSE a - b

\* half the spacing of the floats below 1.0f
Tolerance == One \div Pow2(FloatBits + 1)

\* C14 as stated: with an identity mesh, for every eye and every (u,v) the
\* red, green and blue outputs all equal (u,v).
C14_IdentityReturnsInput ==
    IdentityQueried =>
        LET call == distortionLast[1] IN
        \A rf \in {call.coords.rfRed, call.coords.rfGreen,
                   call.coords.rfBlue} : rf = <<call.u, call.v>>

\* C14 as amended: with an identity mesh, for every eye and every (u,v) the
\* three outputs are the same pair, its u equal to the input u and its v
\* within half the spacing of the floats below 1.0f of the input v (equal to
\* it when 1.0f - v is a float).
C14_IdentityWithinTolerance ==
    IdentityQueried =>
        LET call == distortionLast[1] IN
        /\ call.coords.rfRed = call.coords.rfGreen
        /\ call.coords.rfGreen = call.coords.rfBlue
        /\ call.coords.rfRed[1] = call.u
        /\ Distance(call.coords.rfRed[2], call.v) <= Tolerance
        /\ Representable(One - call.v) => call.coords.rfRed[2] = call.v

\* a query of an identity mesh whose v came back rounded
C14_Witness ==
    /\ IdentityQueried
    /\ distortionLast[1].coords.rfRed[2] # distortionLast[1].v
    /\ distortionLast[1].coords.rfRed[1] = distortionLast[1].u

\* the interpolators of an eye
InterpolatorsOf(eye) ==
    IF eye = "Eye_Right" THEN rightEyeInterpolators_
    ELSE leftEyeInterpolators_

====
